---- MODULE Spec2Model ----
(***************************************************************************)
(* Model of the UVM toolchain (execorix/conf3): the assemblers of etap2    *)
(* and etap5, the etap3 simulator and the etap5 virtual machine.           *)
(*                                                                         *)
(* Python integers are unbounded.  A Python int n is modelled as the pair  *)
(* [hi, lo] with n = hi * 2^20 + lo and 0 <= lo < 2^20, so that 40-bit     *)
(* instruction words, 31-bit addresses and values one past them are        *)
(* represented exactly; hi carries the sign (two's complement).            *)
(***************************************************************************)
EXTENDS Integers, Sequences, FiniteSets, TLC

VARIABLES
    asm,    \* one assembler call chain: source dict, IR, bytes, decoded record
    vm,     \* etap5 VirtualMachine object (its fields)
    run,    \* etap5 run_cycle: where the loop is, the raised exception, iterations
    state,  \* etap3 UVMState object (its fields)
    sim     \* etap3 run_simulator: instr_memory, step, max_steps, outcome

vars == <<asm, vm, run, state, sim>>

(***************************************************************************)
(* Bounds of the model.                                                    *)
(***************************************************************************)
MaxLen == 2        \* number of words of the generated programs
MaxSteps == 8      \* the iteration count of run_cycle is recorded up to here
MaxN == 4          \* largest max_steps given to run_simulator
MaxLog == 3        \* a run is followed while its output log is at most this long
MaxHi == 16384     \* and while its values stay within MaxHi * 2^20 of zero

(***************************************************************************)
(* Python int                                                              *)
(***************************************************************************)
Pow2 == [i \in 0..30 |-> 2^i]

Base == Pow2[20]

I(n) == [hi |-> n \div Base, lo |-> n % Base]

Plus(a, b) ==
    LET s == a.lo + b.lo
    IN  [hi |-> a.hi + b.hi + (s \div Base), lo |-> s % Base]

Minus(a, b) ==
    LET d == a.lo - b.lo
    IN  [hi |-> a.hi - b.hi + (d \div Base), lo |-> d % Base]

Lt(a, b) == a.hi < b.hi \/ (a.hi = b.hi /\ a.lo < b.lo)

Le(a, b) == a = b \/ Lt(a, b)

IsNeg(a) == a.hi < 0

\* a * 2^k for k < 20
ShlLimb(a, k) ==
    [hi |-> a.hi * Pow2[k] + (a.lo \div Pow2[20 - k]),
     lo |-> (a.lo % Pow2[20 - k]) * Pow2[k]]

\* a << k (k < 40)
Shl(a, k) ==
    IF k < 20 THEN ShlLimb(a, k)
    ELSE [hi |-> ShlLimb(a, k - 20).hi * Base + ShlLimb(a, k - 20).lo, lo |-> 0]

\* the floor of a / 2^k for k <= 20
ShrLimb(a, k) ==
    [hi |-> a.hi \div Pow2[k],
     lo |-> (a.hi % Pow2[k]) * Pow2[20 - k] + (a.lo \div Pow2[k])]

\* a >> k (k <= 40)
Shr(a, k) ==
    IF k <= 20 THEN ShrLimb(a, k)
    ELSE ShrLimb([hi |-> a.hi \div Base, lo |-> a.hi % Base], k - 20)

RECURSIVE AndBits(_, _)
\* x & y on two's complement numbers, y >= 0
AndBits(x, y) ==
    IF y = 0 THEN 0 ELSE (x % 2) * (y % 2) + 2 * AndBits(x \div 2, y \div 2)

RECURSIVE OrBits(_, _)
\* x | y on two's complement numbers
OrBits(x, y) ==
    IF x = 0 THEN y
    ELSE IF y = 0 THEN x
    ELSE IF x = 0 - 1 \/ y = 0 - 1 THEN 0 - 1
    ELSE (IF x % 2 = 1 \/ y % 2 = 1 THEN 1 ELSE 0) + 2 * OrBits(x \div 2, y \div 2)

\* a | b
Or(a, b) == [hi |-> OrBits(a.hi, b.hi), lo |-> OrBits(a.lo, b.lo)]

\* a & m, for a mask m >= 0
And(a, m) == [hi |-> AndBits(a.hi, m.hi), lo |-> AndBits(a.lo, m.lo)]

\* a small non-negative Python int as a plain number (register index, nibble)
Small(a) == a.lo

(***************************************************************************)
(* Outcome of a Python call: a returned value or a raised exception.       *)
(***************************************************************************)
Return(v) == [exc |-> "none", value |-> v]

Raise(e, m) == [exc |-> e, value |-> m]

\* int.to_bytes(length, byteorder): OverflowError for a negative int and for
\* one that does not fit; otherwise the bytes in the given order
to_bytes(a, length, byteorder) ==
    IF IsNeg(a) THEN Raise("OverflowError", "can't convert negative int to unsigned")
    ELSE IF Shr(a, 8 * length) # I(0)
         THEN Raise("OverflowError", "int too big to convert")
    ELSE Return([j \in 1..length |->
                    Small(And(Shr(a, 8 * (IF byteorder = "big" THEN length - j ELSE j - 1)),
                              I(255)))])

RECURSIVE SumBytes(_, _, _, _)
\* the sum over the bytes j..Len(b) of limb (0: lo, 1: hi) of b[j] << 8 * weight[j]
SumBytes(b, weight, limb, j) ==
    IF j > Len(b) THEN 0
    ELSE (IF limb = 0 THEN Shl(I(b[j]), 8 * weight[j]).lo ELSE Shl(I(b[j]), 8 * weight[j]).hi)
            + SumBytes(b, weight, limb, j + 1)

\* int.from_bytes(bytes, byteorder), for at most 5 bytes
from_bytes(b, byteorder) ==
    LET weight == [j \in 1..Len(b) |-> IF byteorder = "big" THEN Len(b) - j ELSE j - 1]
    IN  [hi |-> SumBytes(b, weight, 1, 1), lo |-> SumBytes(b, weight, 0, 1)]

\* int(s) for a string of characters: an optional sign and decimal digits
DigitOf == [c \in {"0", "1", "2", "3", "4", "5", "6", "7", "8", "9"} |->
             CASE c = "0" -> 0 [] c = "1" -> 1 [] c = "2" -> 2 [] c = "3" -> 3
               [] c = "4" -> 4 [] c = "5" -> 5 [] c = "6" -> 6 [] c = "7" -> 7
               [] c = "8" -> 8 [] c = "9" -> 9]

RECURSIVE Decimal(_)
Decimal(s) == IF s = <<>> THEN 0 ELSE 10 * Decimal(SubSeq(s, 1, Len(s) - 1)) + DigitOf[s[Len(s)]]

int(s) ==
    LET signed == s # <<>> /\ s[1] \in {"-", "+"}
        digits == IF signed THEN Tail(s) ELSE s
    IN  IF digits = <<>> \/ \E k \in 1..Len(digits) : digits[k] \notin DOMAIN DigitOf
        THEN Raise("ValueError", "invalid literal for int()")
        ELSE Return(IF signed /\ s[1] = "-" THEN 0 - Decimal(digits) ELSE Decimal(digits))

(***************************************************************************)
(* etap5/assembler.py                                                      *)
(***************************************************************************)
E5_OPCODES ==
    [op \in {"NOP", "NEQ", "ADD", "SUB", "JMP", "JZ", "IN", "OUT", "LDI", "STORE", "LOAD"} |->
        CASE op = "NOP" -> 0
          [] op = "NEQ" -> 2 [] op = "ADD" -> 3 [] op = "SUB" -> 4
          [] op = "JMP" -> 5 [] op = "JZ" -> 6
          [] op = "IN" -> 7 [] op = "OUT" -> 8
          [] op = "LDI" -> 9 [] op = "STORE" -> 10 [] op = "LOAD" -> 12]

MAX_CONST_26 == 67108863

INSTRUCTION_SIZE == 5

E5_parse_register(reg_str) ==
    IF reg_str = <<>> \/ reg_str[1] # "R"
    THEN Raise("ValueError", "expected register R<num>")
    ELSE LET n == int(Tail(reg_str))
         IN  IF n.exc # "none" THEN Raise("ValueError", "bad register number")
             ELSE IF ~(0 <= n.value /\ n.value < 16)
                  THEN Raise("ValueError", "bad register number")
             ELSE Return(I(n.value))

E5_ir(op, fields) == Return([op |-> op, opcode |-> I(E5_OPCODES[op]), fields |-> fields])

E5_translate_instruction(instr) ==
    LET op == instr["op"] IN
    IF op \notin DOMAIN E5_OPCODES THEN Raise("ValueError", "unknown operation")
    ELSE CASE op = "NOP" -> E5_ir(op, <<>>)
      [] op \in {"IN", "OUT"} ->
            LET target_reg == E5_parse_register(instr["target_reg"])
                value_code == instr["value_code"]
            IN  IF target_reg.exc # "none" THEN target_reg
                ELSE IF ~(Le(I(0), value_code) /\ Le(value_code, I(MAX_CONST_26)))
                     THEN Raise("ValueError", "I/O code out of range")
                ELSE E5_ir(op, "B_const" :> value_code @@ "C_reg" :> target_reg.value)
      [] op \in {"ADD", "SUB"} ->
            LET reg_b == E5_parse_register(instr["target_reg"])
                reg_c == E5_parse_register(instr["source_reg"])
            IN  IF reg_b.exc # "none" THEN reg_b
                ELSE IF reg_c.exc # "none" THEN reg_c
                ELSE E5_ir(op, "B_reg" :> reg_b.value @@ "C_reg" :> reg_c.value)
      [] op = "JMP" -> E5_ir(op, "B_addr" :> instr["addr"])
      [] op = "JZ" ->
            LET reg_b == E5_parse_register(instr["condition_reg"])
            IN  IF reg_b.exc # "none" THEN reg_b
                ELSE E5_ir(op, "B_reg" :> reg_b.value @@ "C_addr" :> instr["addr"])
      [] op = "LDI" ->
            LET target_reg == E5_parse_register(instr["target_reg"])
            IN  IF target_reg.exc # "none" THEN target_reg
                ELSE E5_ir(op, "B_const" :> instr["value"] @@ "C_reg" :> target_reg.value)
      [] op \in {"LOAD", "NEQ"} ->
            LET target_reg == E5_parse_register(instr["target_reg"])
            IN  IF target_reg.exc # "none" THEN target_reg
                ELSE E5_ir(op, "B_reg" :> target_reg.value @@ "C_addr" :> instr["addr"])
      [] op = "STORE" ->
            LET source_reg == E5_parse_register(instr["source_reg"])
            IN  IF source_reg.exc # "none" THEN source_reg
                ELSE E5_ir(op, "B_addr" :> instr["addr"] @@ "C_reg" :> source_reg.value)

\* the 40-bit word of encode_instruction, before to_bytes
E5_instruction(ir_instr) ==
    LET opcode == ir_instr.opcode
        fields == ir_instr.fields
        code(op) == I(E5_OPCODES[op])
    IN  CASE opcode = code("NOP") -> I(0)
          [] opcode \in {code("IN"), code("OUT"), code("LDI")} ->
                Or(Or(opcode, Shl(fields["B_const"], 4)), Shl(fields["C_reg"], 30))
          [] opcode \in {code("ADD"), code("SUB")} ->
                Or(Or(opcode, Shl(fields["B_reg"], 4)), Shl(fields["C_reg"], 8))
          [] opcode = code("JMP") -> Or(opcode, Shl(fields["B_addr"], 4))
          [] opcode \in {code("JZ"), code("LOAD"), code("NEQ")} ->
                Or(Or(opcode, Shl(fields["B_reg"], 4)), Shl(fields["C_addr"], 8))
          [] opcode = code("STORE") ->
                Or(Or(opcode, Shl(fields["B_addr"], 4)), Shl(fields["C_reg"], 35))
          [] OTHER -> I(0)

\* variant: the word written least significant byte first
E5_encode_instruction_little(ir_instr) ==
    to_bytes(E5_instruction(ir_instr), INSTRUCTION_SIZE, "little")

E5_encode_instruction(ir_instr) == to_bytes(E5_instruction(ir_instr), INSTRUCTION_SIZE, "big")

\* translate_instruction followed by encode_instruction, as main_assembler does
E5_assemble(instr) ==
    LET ir == E5_translate_instruction(instr)
    IN  IF ir.exc # "none" THEN ir ELSE E5_encode_instruction(ir.value)

(***************************************************************************)
(* etap5/interpreter.py                                                    *)
(***************************************************************************)
E5_INTERP_OPCODES ==
    [code \in {0, 2, 3, 4, 5, 6, 7, 8, 9, 10, 12} |->
        CASE code = 0 -> "NOP"
          [] code = 2 -> "NEQ" [] code = 3 -> "ADD" [] code = 4 -> "SUB"
          [] code = 5 -> "JMP" [] code = 6 -> "JZ"
          [] code = 7 -> "IN" [] code = 8 -> "OUT" [] code = 9 -> "LDI"
          [] code = 10 -> "STORE" [] code = 12 -> "LOAD"]

MEMORY_SIZE == Pow2[20]

\* data_memory is [0] * MEMORY_SIZE with some cells overwritten: the model keeps
\* the cells that are not 0
MemGet(data_memory, addr) ==
    IF addr \in DOMAIN data_memory THEN data_memory[addr] ELSE I(0)

MemSet(data_memory, addr, value) ==
    [a \in (DOMAIN data_memory \cup {addr}) \ (IF value = I(0) THEN {addr} ELSE {}) |->
        IF a = addr THEN value ELSE data_memory[a]]

\* variant: the last valid index taken to be len(data_memory)
InMemory_inclusive(addr) == Le(addr, I(MEMORY_SIZE))

\* list indexing data_memory[addr] with addr >= 0 raises IndexError from
\* len(data_memory) on
InMemory(addr) == Lt(addr, I(MEMORY_SIZE))

\* VirtualMachine.__init__ followed by load_program
E5_VirtualMachine(program, input_data) ==
    [data_memory |-> <<>>,
     registers |-> [r \in 0..15 |-> I(0)],
     instruction_memory |-> program,
     pc |-> I(0),
     input_data |-> input_data,
     input_ptr |-> 0,
     output_log |-> <<>>]

\* a variant of _execute_IN whose cursor is one attribute shared by every
\* VirtualMachine of the process instead of an attribute of the instance
E5_execute_IN_shared(m, target_reg, io_code) ==
    IF "input_ptr" \in DOMAIN vm /\ vm.input_ptr < Len(m.input_data)
    THEN Return([m EXCEPT !.registers[target_reg] = m.input_data[vm.input_ptr + 1],
                          !.input_ptr = vm.input_ptr + 1])
    ELSE Return([m EXCEPT !.registers[target_reg] = I(0)])

\* a variant of _execute_IN that reads the value under the cursor and leaves
\* the cursor where it is
E5_execute_IN_stay(m, target_reg, io_code) ==
    IF m.input_ptr < Len(m.input_data)
    THEN Return([m EXCEPT !.registers[target_reg] = m.input_data[m.input_ptr + 1]])
    ELSE Return([m EXCEPT !.registers[target_reg] = I(0)])

\* a variant of _execute_IN that leaves the register alone at the end of input
E5_execute_IN_keep(m, target_reg, io_code) ==
    IF m.input_ptr < Len(m.input_data)
    THEN Return([m EXCEPT !.registers[target_reg] = m.input_data[m.input_ptr + 1],
                          !.input_ptr = m.input_ptr + 1])
    ELSE Return(m)

E5_execute_IN(m, target_reg, io_code) ==
    IF m.input_ptr < Len(m.input_data)
    THEN Return([m EXCEPT !.registers[target_reg] = m.input_data[m.input_ptr + 1],
                          !.input_ptr = m.input_ptr + 1])
    ELSE Return([m EXCEPT !.registers[target_reg] = I(0)])

\* a variant of _execute_OUT that puts the pair at the front of the log
E5_execute_OUT_front(m, source_reg, io_code) ==
    Return([m EXCEPT !.output_log = <<<<m.registers[source_reg], io_code>>>> \o m.output_log])

E5_execute_OUT(m, source_reg, io_code) ==
    Return([m EXCEPT !.output_log = Append(m.output_log, <<m.registers[source_reg], io_code>>)])

E5_execute_LDI(m, target_reg, value) ==
    Return([m EXCEPT !.registers[target_reg] = value])

E5_execute_LOAD(m, target_reg, addr) ==
    IF ~InMemory(addr) THEN Raise("IndexError", [text |-> "list index out of range"])
    ELSE Return([m EXCEPT !.registers[target_reg] = MemGet(m.data_memory, Small(addr))])

\* variant: the register number is stored in place of the register's value
E5_execute_STORE_index(m, addr, source_reg) ==
    IF ~InMemory(addr) THEN Raise("IndexError", [text |-> "list assignment index out of range"])
    ELSE Return([m EXCEPT !.data_memory = MemSet(m.data_memory, Small(addr), I(source_reg))])

E5_execute_STORE(m, addr, source_reg) ==
    IF ~InMemory(addr) THEN Raise("IndexError", [text |-> "list assignment index out of range"])
    ELSE Return([m EXCEPT !.data_memory = MemSet(m.data_memory, Small(addr), m.registers[source_reg])])

\* variant: the two branches of the ALU exchanged
E5_execute_ALU_swapped(m, op_type, target_reg, source_reg) ==
    LET val_b == m.registers[target_reg]
        val_c == m.registers[source_reg]
        result == IF op_type = "ADD" THEN Minus(val_b, val_c) ELSE Plus(val_b, val_c)
    IN  Return([m EXCEPT !.registers[target_reg] = result])

E5_execute_ALU(m, op_type, target_reg, source_reg) ==
    LET val_b == m.registers[target_reg]
        val_c == m.registers[source_reg]
        result == IF op_type = "ADD" THEN Plus(val_b, val_c) ELSE Minus(val_b, val_c)
    IN  Return([m EXCEPT !.registers[target_reg] = result])

E5_execute_NEQ(m, target_reg, addr) ==
    IF ~InMemory(addr) THEN Raise("IndexError", [text |-> "list index out of range"])
    ELSE LET val_reg == m.registers[target_reg]
             val_mem == MemGet(m.data_memory, Small(addr))
         IN  Return([m EXCEPT !.registers[target_reg] = IF val_reg # val_mem THEN I(1) ELSE I(0)])

\* instr_bytes = instruction_memory[pc : pc + INSTRUCTION_SIZE]
E5_instr_bytes(m) ==
    IF Lt(m.pc, I(Len(m.instruction_memory)))
    THEN SubSeq(m.instruction_memory, Small(m.pc) + 1,
                IF Small(m.pc) + INSTRUCTION_SIZE <= Len(m.instruction_memory)
                THEN Small(m.pc) + INSTRUCTION_SIZE ELSE Len(m.instruction_memory))
    ELSE <<>>

\* variant: the loop test alone, without the break on a short slice
E5_fetchable_partial(m) == Lt(m.pc, I(Len(m.instruction_memory)))

\* the loop test of run_cycle together with the break on a short slice
E5_fetchable(m) ==
    /\ Lt(m.pc, I(Len(m.instruction_memory)))
    /\ Len(E5_instr_bytes(m)) = INSTRUCTION_SIZE

\* variant: a three-bit opcode mask
E5_opcode_3bit(instruction) == Small(And(instruction, I(7)))

E5_opcode(instruction) == Small(And(instruction, I(15)))

\* the operation name and the B and C fields run_cycle extracts from a word
\* whose opcode is in the table
E5_decode(instruction) ==
    LET op_name == E5_INTERP_OPCODES[E5_opcode(instruction)]
        field(shift, mask) == And(Shr(instruction, shift), I(mask))
        fields ==
            CASE op_name = "NOP" -> <<>>
              [] op_name = "JMP" -> "B_addr" :> Shr(instruction, 4)
              [] op_name = "JZ" -> "B_reg" :> field(4, 15) @@ "C_addr" :> field(8, 2147483647)
              [] op_name \in {"IN", "OUT", "LDI"} ->
                    "C_reg" :> field(30, 15) @@ "B_const" :> field(4, 67108863)
              [] op_name = "STORE" -> "C_reg" :> field(35, 15) @@ "B_addr" :> field(4, 2147483647)
              [] op_name \in {"ADD", "SUB"} -> "B_reg" :> field(4, 15) @@ "C_reg" :> field(8, 15)
              [] op_name \in {"LOAD", "NEQ"} -> "C_addr" :> field(8, 2147483647) @@ "B_reg" :> field(4, 15)
    IN  [op |-> op_name, fields |-> fields]

\* variant: jump targets taken as word indices
E5_next_pc_word_index(m, d) ==
    CASE d.op = "JMP" -> Plus(Shl(d.fields["B_addr"], 2), d.fields["B_addr"])
      [] d.op = "JZ" /\ m.registers[Small(d.fields["B_reg"])] = I(0) ->
            Plus(Shl(d.fields["C_addr"], 2), d.fields["C_addr"])
      [] OTHER -> Plus(m.pc, I(INSTRUCTION_SIZE))

\* variant: the default advance is one, as in a machine that counts words
E5_next_pc_unit(m, d) ==
    CASE d.op = "JMP" -> d.fields["B_addr"]
      [] d.op = "JZ" /\ m.registers[Small(d.fields["B_reg"])] = I(0) -> d.fields["C_addr"]
      [] OTHER -> Plus(m.pc, I(1))

\* variant: JZ jumps when the register is not 0
E5_next_pc_nonzero(m, d) ==
    CASE d.op = "JMP" -> d.fields["B_addr"]
      [] d.op = "JZ" /\ m.registers[Small(d.fields["B_reg"])] # I(0) -> d.fields["C_addr"]
      [] OTHER -> Plus(m.pc, I(INSTRUCTION_SIZE))

\* next_pc as run_cycle computes it for the decoded word d
E5_next_pc(m, d) ==
    CASE d.op = "JMP" -> d.fields["B_addr"]
      [] d.op = "JZ" /\ m.registers[Small(d.fields["B_reg"])] = I(0) -> d.fields["C_addr"]
      [] OTHER -> Plus(m.pc, I(INSTRUCTION_SIZE))

\* the handler run_cycle calls for the decoded word d
E5_dispatch(m, d) ==
    LET f == d.fields IN
    CASE d.op = "IN" -> E5_execute_IN(m, Small(f["C_reg"]), f["B_const"])
      [] d.op = "OUT" -> E5_execute_OUT(m, Small(f["C_reg"]), f["B_const"])
      [] d.op = "LDI" -> E5_execute_LDI(m, Small(f["C_reg"]), f["B_const"])
      [] d.op = "STORE" -> E5_execute_STORE(m, f["B_addr"], Small(f["C_reg"]))
      [] d.op \in {"ADD", "SUB"} -> E5_execute_ALU(m, d.op, Small(f["B_reg"]), Small(f["C_reg"]))
      [] d.op = "LOAD" -> E5_execute_LOAD(m, Small(f["B_reg"]), f["C_addr"])
      [] d.op = "NEQ" -> E5_execute_NEQ(m, Small(f["B_reg"]), f["C_addr"])
      [] OTHER -> Return(m)

\* one iteration of the while loop of run_cycle on a fetched word: the machine
\* after self.pc = next_pc, or the exception that leaves the loop
E5_iteration(m) ==
    LET instruction == from_bytes(E5_instr_bytes(m), "big")
        opcode == E5_opcode(instruction)
    IN  IF opcode \notin DOMAIN E5_INTERP_OPCODES
        THEN Raise("ValueError", [text |-> "unknown opcode", opcode |-> opcode, pc |-> m.pc])
        ELSE LET d == E5_decode(instruction)
                 next_pc == E5_next_pc(m, d)
                 done == E5_dispatch(m, d)
             IN  IF done.exc # "none" THEN done
                 ELSE Return([done.value EXCEPT !.pc = next_pc])

(***************************************************************************)
(* Source programs of the etap5 toolchain.                                 *)
(***************************************************************************)
DigitChars == <<"0", "1", "2", "3", "4", "5", "6", "7", "8", "9">>

\* the operand text "R<n>"
RegStr(n) ==
    IF n < 10 THEN <<"R", DigitChars[n + 1]>>
    ELSE <<"R", DigitChars[(n \div 10) + 1], DigitChars[(n % 10) + 1]>>

S_NOP == [op |-> "NOP"]
S_LDI(r, v) == [op |-> "LDI", target_reg |-> RegStr(r), value |-> v]
S_IN(r, code) == [op |-> "IN", target_reg |-> RegStr(r), value_code |-> code]
S_OUT(r, code) == [op |-> "OUT", target_reg |-> RegStr(r), value_code |-> code]
S_ADD(b, c) == [op |-> "ADD", target_reg |-> RegStr(b), source_reg |-> RegStr(c)]
S_SUB(b, c) == [op |-> "SUB", target_reg |-> RegStr(b), source_reg |-> RegStr(c)]
S_JMP(a) == [op |-> "JMP", addr |-> a]
S_JZ(r, a) == [op |-> "JZ", condition_reg |-> RegStr(r), addr |-> a]
S_LOAD(r, a) == [op |-> "LOAD", target_reg |-> RegStr(r), addr |-> a]
S_STORE(a, r) == [op |-> "STORE", addr |-> a, source_reg |-> RegStr(r)]
S_NEQ(r, a) == [op |-> "NEQ", target_reg |-> RegStr(r), addr |-> a]

RECURSIVE Concat(_)
Concat(words) == IF words = <<>> THEN <<>> ELSE Head(words) \o Concat(Tail(words))

\* binary_program of main_assembler for a list of source instructions
E5_binary_program(source_code) ==
    Concat([k \in 1..Len(source_code) |-> E5_assemble(source_code[k]).value])

ScenarioA == E5_binary_program(<<S_LDI(1, I(10)), S_LDI(2, I(5)), S_ADD(1, 2)>>)

ScenarioB == E5_binary_program(<<S_LDI(1, I(0)), S_JZ(1, I(2)), S_LDI(1, I(99)), S_NOP>>)

ScenarioBounds ==
    E5_binary_program(<<S_LDI(1, I(7)), S_STORE(I(MEMORY_SIZE - 1), 1),
                        S_LOAD(2, I(MEMORY_SIZE - 1)), S_LOAD(3, I(MEMORY_SIZE))>>)

\* one-word programs: every low nibble under three settings of the other 36 bits
RawWords ==
    {<<0, 0, 0, 0, n>> : n \in 0..15}
        \cup {<<255, 255, 255, 255, 240 + n>> : n \in 0..15}
        \cup {<<18, 52, 86, 120, 144 + n>> : n \in 0..15}

\* the words the generated programs are made of
Alphabet5 ==
    {E5_assemble(s).value : s \in
        {S_NOP, S_LDI(1, I(0)), S_LDI(1, I(7)), S_LDI(2, I(MAX_CONST_26)),
         S_ADD(1, 2), S_SUB(1, 2), S_IN(3, I(1)), S_OUT(1, I(2)),
         S_JMP(I(0)), S_JMP(I(5)), S_JZ(1, I(0)), S_NEQ(1, I(5)),
         S_STORE(I(MEMORY_SIZE - 1), 2), S_STORE(I(MEMORY_SIZE), 2),
         S_LOAD(1, I(MEMORY_SIZE - 1)), S_LOAD(1, I(MEMORY_SIZE))}}
        \cup {<<0, 0, 0, 19, 27>>}

RECURSIVE ProgramsOf(_, _)
\* the concatenations of at most n words of the alphabet
ProgramsOf(alphabet, n) ==
    IF n = 0 THEN {<<>>}
    ELSE LET shorter == ProgramsOf(alphabet, n - 1)
         IN  shorter \cup {p \o w : p \in shorter, w \in alphabet}

\* STORE at address 5 from R3 = 42, then LOAD into R4 from address 5
ScenarioC == E5_binary_program(<<S_LDI(3, I(42)), S_STORE(I(5), 3), S_LOAD(4, I(5))>>)

\* the largest constant doubled seven times, and a smaller value minus a larger
ScenarioWrap ==
    E5_binary_program(<<S_LDI(1, I(MAX_CONST_26)), S_ADD(1, 1), S_ADD(1, 1), S_ADD(1, 1),
                        S_ADD(1, 1), S_ADD(1, 1), S_ADD(1, 1), S_ADD(1, 1),
                        S_LDI(2, I(1)), S_SUB(3, 2)>>)

\* the scenarios, a program that writes two different pairs, two programs
\* that end in a part of a word, the one-word programs and the generated
\* programs
Programs5 ==
    {ScenarioA, ScenarioB, ScenarioBounds, ScenarioC, ScenarioWrap,
     E5_binary_program(<<S_LDI(1, I(7)), S_OUT(1, I(2)), S_IN(1, I(0)), S_OUT(1, I(1))>>),
     <<9, 0, 0>>, E5_binary_program(<<S_LDI(1, I(7))>>) \o <<0, 0, 0>>}
        \cup RawWords \cup ProgramsOf(Alphabet5, MaxLen)

Inputs5 == {<<>>, <<I(70), I(3)>>}

(***************************************************************************)
(* The etap5 machine: main_interpreter builds a VirtualMachine, loads the  *)
(* program and calls run_cycle.                                            *)
(***************************************************************************)
Idle == [stage |-> "idle"]

E5_Init ==
    /\ \E program \in Programs5, input_data \in Inputs5 :
            vm = E5_VirtualMachine(program, input_data)
    /\ run = [status |-> "running", exc |-> "none", info |-> <<>>, steps |-> 0]
    /\ asm = Idle /\ state = Idle /\ sim = Idle

\* the part of the state space the model follows
E5_InBounds(m) ==
    /\ Len(m.output_log) <= MaxLog
    /\ \A r \in 0..15 : 0 - MaxHi <= m.registers[r].hi /\ m.registers[r].hi <= MaxHi

\* variant: a pass that raises is skipped, the loop goes on with the next word
E5_Step_skip ==
    /\ run.status = "running"
    /\ E5_fetchable(vm)
    /\ E5_InBounds(vm)
    /\ \E r \in {E5_iteration(vm)} :
        LET counted == [run EXCEPT !.steps = IF @ < MaxSteps THEN @ + 1 ELSE @]
        IN  IF r.exc = "none"
            THEN vm' = r.value /\ run' = counted
            ELSE vm' = [vm EXCEPT !.pc = Plus(@, I(INSTRUCTION_SIZE))] /\ run' = counted
    /\ UNCHANGED <<asm, state, sim>>

\* one pass through the body of the while loop; steps counts the passes, up to
\* MaxSteps
E5_Step ==
    /\ run.status = "running"
    /\ E5_fetchable(vm)
    /\ E5_InBounds(vm)
    /\ \E r \in {E5_iteration(vm)} :
        LET counted == [run EXCEPT !.steps = IF @ < MaxSteps THEN @ + 1 ELSE @]
        IN  IF r.exc = "none"
            THEN vm' = r.value /\ run' = counted
            ELSE vm' = vm /\ run' = [counted EXCEPT !.status = "fault", !.exc = r.exc, !.info = r.value]
    /\ UNCHANGED <<asm, state, sim>>

\* the while condition fails, or the slice at pc is shorter than a word
E5_Exit ==
    /\ run.status = "running"
    /\ ~E5_fetchable(vm)
    /\ run' = [run EXCEPT !.status = "halted"]
    /\ UNCHANGED <<vm, asm, state, sim>>

\* dump_memory(path, start, end): the rows written to the file, returned when
\* the loop ends and raised with the IndexError of data_memory[i] otherwise
\* (a negative i counts from the end of the list)
E5_dump_memory(m, start, end) ==
    LET outside == {i \in start..(end - 1) : i >= MEMORY_SIZE \/ i < 0 - MEMORY_SIZE}
        stop == IF outside = {} THEN end
                ELSE CHOOSE i \in outside : \A j \in outside : i <= j
        rows == [k \in 1..(stop - start) |->
                    LET i == start + k - 1
                    IN  <<i, MemGet(m.data_memory, IF i < 0 THEN i + MEMORY_SIZE ELSE i)>>]
    IN  IF outside = {} THEN Return(rows) ELSE Raise("IndexError", rows)

\* main_interpreter after run_cycle has returned: vm.dump_memory(args.result,
\* start, end) with the range of the command line
E5_Dump ==
    /\ run.status = "halted"
    /\ \E range \in {<<0, 5>>, <<48, 52>>, <<5, 2>>, <<-1, 1>>,
                       <<MEMORY_SIZE - 2, MEMORY_SIZE>>, <<MEMORY_SIZE - 2, MEMORY_SIZE + 2>>,
                       <<MEMORY_SIZE, MEMORY_SIZE + 1>>} :
        \E r \in {E5_dump_memory(vm, range[1], range[2])} :
            run' = [run EXCEPT !.status = IF r.exc = "none" THEN "dumped" ELSE "dump failed",
                               !.exc = r.exc,
                               !.info = [start |-> range[1], end |-> range[2], rows |-> r.value]]
    /\ UNCHANGED <<vm, asm, state, sim>>

E5_Next == E5_Step \/ E5_Exit \/ E5_Dump

SpecVM5 == E5_Init /\ [][E5_Next]_vars

(***************************************************************************)
(* Two runs of the etap5 run_cycle from one initial machine: the first in  *)
(* vm and run, the second in state and sim.  steps counts the evaluations  *)
(* of the while condition, and a run is followed for MaxSteps of them.     *)
(***************************************************************************)
D5_Init ==
    /\ \E program \in {ScenarioA, ScenarioB, ScenarioBounds, ScenarioC, ScenarioWrap,
                        E5_binary_program(<<S_IN(3, I(1)), S_JMP(I(0))>>),
                        E5_binary_program(<<S_IN(1, I(0)), S_OUT(1, I(1)), S_IN(2, I(0)),
                                            S_SUB(1, 2), S_STORE(I(9), 1)>>)}
                            \cup RawWords \cup ProgramsOf(Alphabet5, 1),
          input_data \in Inputs5 :
            vm = E5_VirtualMachine(program, input_data) /\ state = vm
    /\ run = [status |-> "running", exc |-> "none", info |-> <<>>, steps |-> 0]
    /\ sim = run
    /\ asm = Idle

\* the first run evaluates the while condition and leaves the loop or makes
\* one pass
D5_First ==
    /\ run.status = "running" /\ run.steps < MaxSteps
    /\ E5_InBounds(vm)
    /\ \E r \in {IF E5_fetchable(vm) THEN E5_iteration(vm) ELSE Raise("halted", <<>>)} :
        LET counted == [run EXCEPT !.steps = @ + 1]
        IN  CASE r.exc = "none" -> vm' = r.value /\ run' = counted
              [] r.exc = "halted" -> vm' = vm /\ run' = [counted EXCEPT !.status = "halted"]
              [] OTHER -> vm' = vm /\ run' = [counted EXCEPT !.status = "fault", !.exc = r.exc,
                                                              !.info = r.value]
    /\ UNCHANGED <<asm, state, sim>>

\* the second run does the same on its own machine
D5_Second ==
    /\ sim.status = "running" /\ sim.steps < MaxSteps
    /\ E5_InBounds(state)
    /\ \E r \in {IF E5_fetchable(state) THEN E5_iteration(state) ELSE Raise("halted", <<>>)} :
        LET counted == [sim EXCEPT !.steps = @ + 1]
        IN  CASE r.exc = "none" -> state' = r.value /\ sim' = counted
              [] r.exc = "halted" -> state' = state /\ sim' = [counted EXCEPT !.status = "halted"]
              [] OTHER -> state' = state /\ sim' = [counted EXCEPT !.status = "fault",
                                                                   !.exc = r.exc, !.info = r.value]
    /\ UNCHANGED <<asm, vm, run>>

D5_Next == D5_First \/ D5_Second

SpecTwin5 == D5_Init /\ [][D5_Next]_vars

(***************************************************************************)
(* The etap5 assembler on one source instruction, and run_cycle's reading  *)
(* of the five bytes it wrote.                                             *)
(***************************************************************************)
\* operand values: the ends of each range, one past them, and one below zero
Regs5 == {0, 1, 15, 16}

Consts5 == {I(0), I(1), I(MAX_CONST_26), Plus(I(MAX_CONST_26), I(1)), I(-1)}

Addrs5 == {I(0), I(2), I(MEMORY_SIZE), I(2147483647), Plus(I(2147483647), I(1)), I(-1)}

Sources5 ==
    {S_NOP}
        \cup {S_LDI(r, v) : r \in Regs5, v \in Consts5}
        \cup {S_IN(r, v) : r \in Regs5, v \in Consts5}
        \cup {S_OUT(r, v) : r \in Regs5, v \in Consts5}
        \cup {S_ADD(b, c) : b \in Regs5, c \in Regs5}
        \cup {S_SUB(b, c) : b \in Regs5, c \in Regs5}
        \cup {S_JMP(a) : a \in Addrs5}
        \cup {S_JZ(r, a) : r \in Regs5, a \in Addrs5}
        \cup {S_LOAD(r, a) : r \in Regs5, a \in Addrs5}
        \cup {S_STORE(a, r) : r \in Regs5, a \in Addrs5}
        \cup {S_NEQ(r, a) : r \in Regs5, a \in Addrs5}

A5_Init ==
    /\ asm \in {[stage |-> "source", instr |-> instr, ir |-> <<>>, bytes |-> <<>>,
                 decoded |-> <<>>, error |-> <<>>] : instr \in Sources5}
    /\ vm = Idle /\ run = Idle /\ state = Idle /\ sim = Idle

\* ir_instr = translate_instruction(instr)
A5_Translate ==
    /\ asm.stage = "source"
    /\ \E r \in {E5_translate_instruction(asm.instr)} :
        asm' = IF r.exc = "none" THEN [asm EXCEPT !.stage = "ir", !.ir = r.value]
               ELSE [asm EXCEPT !.stage = "error", !.error = r]
    /\ UNCHANGED <<vm, run, state, sim>>

\* instr_bytes = encode_instruction(ir_instr)
A5_Encode ==
    /\ asm.stage = "ir"
    /\ \E r \in {E5_encode_instruction(asm.ir)} :
        asm' = IF r.exc = "none" THEN [asm EXCEPT !.stage = "bytes", !.bytes = r.value]
               ELSE [asm EXCEPT !.stage = "error", !.error = r]
    /\ UNCHANGED <<vm, run, state, sim>>

\* run_cycle reads the five bytes as its instruction word and extracts the
\* operation and the fields
A5_Extract ==
    /\ asm.stage = "bytes"
    /\ \E instruction \in {from_bytes(asm.bytes, "big")} :
        asm' = IF E5_opcode(instruction) \in DOMAIN E5_INTERP_OPCODES
               THEN [asm EXCEPT !.stage = "decoded", !.decoded = E5_decode(instruction)]
               ELSE [asm EXCEPT !.stage = "error",
                                !.error = Raise("ValueError", "unknown opcode")]
    /\ UNCHANGED <<vm, run, state, sim>>

A5_Next == A5_Translate \/ A5_Encode \/ A5_Extract

SpecAsm5 == A5_Init /\ [][A5_Next]_vars

(***************************************************************************)
(* etap2/__main__.py: the assembler of the second stage                    *)
(***************************************************************************)
E2_OPCODES ==
    [op \in {"NEQ", "STORE", "LDI", "LOAD"} |->
        CASE op = "NEQ" -> 2 [] op = "STORE" -> 6 [] op = "LDI" -> 9 [] op = "LOAD" -> 12]

MAX_REG_ADDR == 15

MAX_ADDR_31 == 2147483647

\* variant: only the upper end of the range is tested
E2_check_range_upper_only(value, max_val, field_name, op_name) ==
    IF ~Le(value, I(max_val))
    THEN Raise("ValueError", [op_name |-> op_name, field_name |-> field_name,
                              value |-> value, max_val |-> max_val])
    ELSE Return(<<>>)

\* check_range: the ValueError carries the operation, the field, the value and
\* the maximum its message is formatted from
E2_check_range(value, max_val, field_name, op_name) ==
    IF ~(Le(I(0), value) /\ Le(value, I(max_val)))
    THEN Raise("ValueError", [op_name |-> op_name, field_name |-> field_name,
                              value |-> value, max_val |-> max_val])
    ELSE Return(<<>>)

\* fields.get(name, 0)
E2_get(fields, name) == IF name \in DOMAIN fields THEN fields[name] ELSE I(0)

\* the field names, maxima and shifts of B and C for an operation
E2_layout(op_name) ==
    CASE op_name = "LDI" ->
            [B |-> [name |-> "B_const", max |-> MAX_CONST_26, shift |-> 4],
             C |-> [name |-> "C_reg", max |-> MAX_REG_ADDR, shift |-> 30]]
      [] op_name \in {"LOAD", "NEQ"} ->
            [B |-> [name |-> "B_reg", max |-> MAX_REG_ADDR, shift |-> 4],
             C |-> [name |-> "C_addr", max |-> MAX_ADDR_31, shift |-> 8]]
      [] op_name = "STORE" ->
            [B |-> [name |-> "B_addr", max |-> MAX_ADDR_31, shift |-> 4],
             C |-> [name |-> "C_reg", max |-> MAX_REG_ADDR, shift |-> 35]]

E2_assemble_instruction(ir_instr) ==
    LET opcode == ir_instr.opcode
        fields == ir_instr.fields
        op_name == ir_instr.op
        base == And(opcode, I(15))
    IN  IF op_name \notin {"LDI", "LOAD", "NEQ", "STORE"}
        THEN to_bytes(base, INSTRUCTION_SIZE, "little")
        ELSE LET B == E2_layout(op_name).B
                 C == E2_layout(op_name).C
                 b_val == E2_get(fields, B.name)
                 c_val == E2_get(fields, C.name)
                 b_ok == E2_check_range(b_val, B.max, B.name, op_name)
                 c_ok == E2_check_range(c_val, C.max, C.name, op_name)
             IN  IF b_ok.exc # "none" THEN b_ok
                 ELSE IF c_ok.exc # "none" THEN c_ok
                 ELSE to_bytes(Or(Or(base, Shl(And(b_val, I(B.max)), B.shift)),
                                  Shl(And(c_val, I(C.max)), C.shift)),
                               INSTRUCTION_SIZE, "little")

\* field values: the ends of each range, one past them, and below zero
RegValues2 == {I(0), I(MAX_REG_ADDR), I(MAX_REG_ADDR + 1), I(-1)}

ConstValues2 == {I(0), I(1193046), I(MAX_CONST_26), I(MAX_CONST_26 + 1), I(-1), I(-MAX_CONST_26)}

AddrValues2 == {I(0), I(305419896), I(MAX_ADDR_31), Plus(I(MAX_ADDR_31), I(1)), I(-1),
                I(-MAX_ADDR_31)}

E2_ir(op, fields) == [op |-> op, opcode |-> I(E2_OPCODES[op]), fields |-> fields]

IRs2 ==
    {E2_ir("LDI", "B_const" :> b @@ "C_reg" :> c) : b \in ConstValues2, c \in RegValues2}
        \cup {E2_ir(op, "B_reg" :> b @@ "C_addr" :> c) :
                op \in {"LOAD", "NEQ"}, b \in RegValues2, c \in AddrValues2}
        \cup {E2_ir("STORE", "B_addr" :> b @@ "C_reg" :> c) : b \in AddrValues2, c \in RegValues2}

A2_Init ==
    /\ asm \in {[stage |-> "ir", ir |-> ir, bytes |-> <<>>, error |-> <<>>] : ir \in IRs2}
    /\ vm = Idle /\ run = Idle /\ state = Idle /\ sim = Idle

\* assemble_instruction(instr) inside assemble_program
A2_Assemble ==
    /\ asm.stage = "ir"
    /\ \E r \in {E2_assemble_instruction(asm.ir)} :
        asm' = IF r.exc = "none" THEN [asm EXCEPT !.stage = "bytes", !.bytes = r.value]
               ELSE [asm EXCEPT !.stage = "error", !.error = r]
    /\ UNCHANGED <<vm, run, state, sim>>

A2_Next == A2_Assemble

SpecAsm2 == A2_Init /\ [][A2_Next]_vars

(***************************************************************************)
(* etap3/interpretator.py: the simulator of the third stage                *)
(***************************************************************************)
\* the OPCODES dict in the order of its items: <<name, code>>
E3_OPCODES ==
    << <<"NOP", 0>>, <<"NEQ", 2>>, <<"ADD", 3>>, <<"JMP", 5>>, <<"JZ", 6>>,
       <<"STORE", 6>>, <<"LDI", 9>>, <<"LOAD", 12>> >>

DATA_MEMORY_SIZE == 4096

\* 0xFFFFFFFF
MASK32 == Minus(Shl(I(1), 32), I(1))

\* UVMState()
E3_UVMState == [data_memory |-> <<>>, registers |-> [r \in 0..MAX_REG_ADDR |-> I(0)], pc |-> I(0)]

E3_reg_ok(addr) == Le(I(0), addr) /\ Le(addr, I(MAX_REG_ADDR))

E3_data_ok(addr) == Le(I(0), addr) /\ Lt(addr, I(DATA_MEMORY_SIZE))

E3_get_reg(st, addr) ==
    IF ~E3_reg_ok(addr) THEN Raise("ValueError", [text |-> "bad register", addr |-> addr])
    ELSE Return(st.registers[Small(addr)])

\* variant: set_reg without the special case of register 0
E3_set_reg_plain(st, addr, value) ==
    IF ~E3_reg_ok(addr) THEN Raise("ValueError", [text |-> "bad register", addr |-> addr])
    ELSE Return([st EXCEPT !.registers[Small(addr)] = And(value, MASK32)])

\* variant: set_reg that keeps the rule of register 0 and stores the value as it is
E3_set_reg_unmasked(st, addr, value) ==
    IF ~E3_reg_ok(addr) THEN Raise("ValueError", [text |-> "bad register", addr |-> addr])
    ELSE Return([st EXCEPT !.registers[Small(addr)] = IF addr # I(0) THEN value ELSE I(0)])

E3_set_reg(st, addr, value) ==
    IF ~E3_reg_ok(addr) THEN Raise("ValueError", [text |-> "bad register", addr |-> addr])
    ELSE Return([st EXCEPT !.registers[Small(addr)] =
                    IF addr # I(0) THEN And(value, MASK32) ELSE I(0)])

E3_get_data(st, addr) ==
    IF ~E3_data_ok(addr) THEN Raise("ValueError", [text |-> "data address", addr |-> addr])
    ELSE Return(MemGet(st.data_memory, Small(addr)))

E3_set_data(st, addr, value) ==
    IF ~E3_data_ok(addr) THEN Raise("ValueError", [text |-> "data address", addr |-> addr])
    ELSE Return([st EXCEPT !.data_memory = MemSet(@, Small(addr), And(value, MASK32))])

\* next((name for name, code in OPCODES.items() if code == opcode), None)
E3_op_name(opcode) ==
    LET hits == {k \in 1..Len(E3_OPCODES) : E3_OPCODES[k][2] = opcode}
    IN  IF hits = {} THEN "None"
        ELSE E3_OPCODES[CHOOSE k \in hits : \A h \in hits : k <= h][1]

E3_disassamble_instruction(instr_bytes) ==
    IF Len(instr_bytes) # INSTRUCTION_SIZE
    THEN Raise("ValueError", [text |-> "instruction size", got |-> Len(instr_bytes)])
    ELSE LET instr_word == from_bytes(instr_bytes, "little")
             opcode == Small(And(instr_word, I(15)))
             op_name == E3_op_name(opcode)
             field(shift, mask) == And(Shr(instr_word, shift), I(mask))
         IN  IF op_name = "None"
             THEN Raise("ValueError", [text |-> "unknown opcode", opcode |-> opcode])
             ELSE Return([op |-> op_name, opcode |-> opcode, fields |->
                    CASE op_name = "LDI" ->
                            "B_const" :> field(4, MAX_CONST_26) @@ "C_reg" :> field(30, MAX_REG_ADDR)
                      [] op_name \in {"LOAD", "NEQ", "JZ"} ->
                            "B_reg" :> field(4, MAX_REG_ADDR) @@ "C_addr" :> field(8, MAX_ADDR_31)
                      [] op_name = "STORE" ->
                            "B_addr" :> field(4, MAX_ADDR_31) @@ "C_reg" :> field(35, MAX_REG_ADDR)
                      [] op_name = "ADD" ->
                            "B_reg" :> field(4, MAX_REG_ADDR) @@ "C_reg" :> field(8, MAX_REG_ADDR)
                      [] op_name = "JMP" -> "B_addr" :> field(4, MAX_ADDR_31)
                      [] OTHER -> <<>>])

\* execute_instruction: the state after state.pc = next_pc, or the exception
\* of the first call that raises (every branch raises before it has written
\* anything)
E3_execute_instruction(ir_instr, st) ==
    LET op == ir_instr.op
        fields == ir_instr.fields
        next_pc ==
            CASE op = "JMP" -> fields["B_addr"]
              [] op = "JZ" /\ st.registers[Small(fields["B_reg"])] = I(0) -> fields["C_addr"]
              [] OTHER -> Plus(st.pc, I(1))
        done ==
            CASE op = "LDI" -> E3_set_reg(st, fields["C_reg"], fields["B_const"])
              [] op = "LOAD" ->
                    LET data == E3_get_data(st, fields["C_addr"])
                    IN  IF data.exc # "none" THEN data
                        ELSE E3_set_reg(st, fields["B_reg"], data.value)
              [] op = "STORE" ->
                    LET data == E3_get_reg(st, fields["C_reg"])
                    IN  IF data.exc # "none" THEN data
                        ELSE E3_set_data(st, fields["B_addr"], data.value)
              [] op = "ADD" ->
                    LET val_b == E3_get_reg(st, fields["B_reg"])
                        val_c == E3_get_reg(st, fields["C_reg"])
                    IN  IF val_b.exc # "none" THEN val_b
                        ELSE IF val_c.exc # "none" THEN val_c
                        ELSE E3_set_reg(st, fields["B_reg"], Plus(val_b.value, val_c.value))
              [] op = "JZ" ->
                    LET val_b == E3_get_reg(st, fields["B_reg"])
                    IN  IF val_b.exc # "none" THEN val_b ELSE Return(st)
              [] op = "NEQ" ->
                    LET val_b == E3_get_reg(st, fields["B_reg"])
                        val_c == E3_get_data(st, fields["C_addr"])
                    IN  IF val_b.exc # "none" THEN val_b
                        ELSE IF val_c.exc # "none" THEN val_c
                        ELSE E3_set_reg(st, fields["B_reg"],
                                        IF val_b.value # val_c.value THEN I(1) ELSE I(0))
              [] OTHER -> Return(st)
    IN  IF done.exc # "none" THEN done ELSE Return([done.value EXCEPT !.pc = next_pc])

\* a little-endian word with the given opcode and two fields at their shifts
E3_word(opcode, b, b_shift, c, c_shift) ==
    to_bytes(Or(Or(I(opcode), Shl(I(b), b_shift)), Shl(I(c), c_shift)),
             INSTRUCTION_SIZE, "little").value

W3_JMP(addr) == E3_word(5, addr, 4, 0, 8)

W3_LDI(reg, const) == E3_word(9, const, 4, reg, 30)

W3_ADD(reg_b, reg_c) == E3_word(3, reg_b, 4, reg_c, 8)

Alphabet3 ==
    {E3_word(0, 0, 4, 0, 8), W3_JMP(0), W3_JMP(1), W3_LDI(1, 5), W3_LDI(0, 7), W3_LDI(2, MAX_CONST_26),
     W3_ADD(1, 2), W3_ADD(2, 2), E3_word(12, 3, 4, 256, 8), E3_word(12, 1, 4, DATA_MEMORY_SIZE, 8),
     E3_word(2, 1, 4, 257, 8), E3_word(6, 1, 4, 0, 8), E3_word(6, 16, 4, 2, 35), E3_word(1, 0, 4, 0, 8),
     E3_word(12, 0, 4, 256, 8), W3_ADD(0, 1), E3_word(2, 0, 4, 257, 8)}

\* whole programs, and two byte strings whose length is not a multiple of five
Programs3 ==
    ProgramsOf(Alphabet3, MaxLen) \cup {W3_JMP(0) \o <<0, 0, 0>>, <<9, 0>>}

\* the state main_simulator builds: UVMState() and five cells set from 0x100
E3_main_state ==
    [E3_UVMState EXCEPT !.data_memory = [a \in 256..260 |-> I(43520 + a - 256)]]

\* run_simulator(instr_memory, state, max_steps) is called
S3_Init ==
    /\ state \in {E3_UVMState, E3_main_state}
    /\ sim \in {[stage |-> "start", instr_memory |-> program, max_steps |-> n, step |-> 0,
                 report |-> "none", exc |-> "none", info |-> <<>>] :
                    program \in Programs3, n \in 0..MaxN}
    /\ asm = Idle /\ vm = Idle /\ run = Idle

S3_total_instr_count == Len(sim.instr_memory) \div INSTRUCTION_SIZE

\* variant: run_simulator without the length check
S3_Check_absent ==
    /\ sim.stage = "start"
    /\ sim' = [sim EXCEPT !.stage = "loop", !.step = 0]
    /\ UNCHANGED <<asm, vm, run, state>>

\* the length check before the loop
S3_Check ==
    /\ sim.stage = "start"
    /\ sim' = IF Len(sim.instr_memory) % INSTRUCTION_SIZE # 0
              THEN [sim EXCEPT !.stage = "raised", !.exc = "ValueError",
                               !.info = [text |-> "size is not a multiple of the instruction size"]]
              ELSE [sim EXCEPT !.stage = "loop", !.step = 0]
    /\ UNCHANGED <<asm, vm, run, state>>

\* variant: the loop goes on while step <= max_steps
S3_looping_inclusive ==
    /\ Le(I(0), state.pc) /\ Lt(state.pc, I(S3_total_instr_count))
    /\ sim.step <= sim.max_steps

\* while 0 <= state.pc < total_instr_count and step < max_steps
S3_looping ==
    /\ Le(I(0), state.pc) /\ Lt(state.pc, I(S3_total_instr_count))
    /\ sim.step < sim.max_steps

\* one pass of the loop: disassamble_instruction, execute_instruction, step += 1
S3_Step ==
    /\ sim.stage = "loop"
    /\ S3_looping
    /\ LET start_byte == Small(state.pc) * INSTRUCTION_SIZE
           instr_bytes == SubSeq(sim.instr_memory, start_byte + 1, start_byte + INSTRUCTION_SIZE)
       IN  \E ir \in {E3_disassamble_instruction(instr_bytes)} :
            IF ir.exc # "none"
            THEN /\ sim' = [sim EXCEPT !.stage = "raised", !.exc = ir.exc, !.info = ir.value]
                 /\ state' = state
            ELSE \E r \in {E3_execute_instruction(ir.value, state)} :
                    IF r.exc # "none"
                    THEN /\ sim' = [sim EXCEPT !.stage = "raised", !.exc = r.exc, !.info = r.value]
                         /\ state' = state
                    ELSE /\ sim' = [sim EXCEPT !.step = @ + 1]
                         /\ state' = r.value
    /\ UNCHANGED <<asm, vm, run>>

\* the loop ends and the outcome is printed
S3_Report ==
    /\ sim.stage = "loop"
    /\ ~S3_looping
    /\ sim' = [sim EXCEPT !.stage = "done",
                          !.report = IF sim.step >= sim.max_steps THEN "step limit"
                                     ELSE IF ~Lt(state.pc, I(S3_total_instr_count)) THEN "finished"
                                     ELSE "stopped"]
    /\ UNCHANGED <<asm, vm, run, state>>

S3_Next == S3_Check \/ S3_Step \/ S3_Report

SpecSim3 == S3_Init /\ [][S3_Next]_vars

(***************************************************************************)
(* etap4: the opcode tables of the assembler (__main__.py) and of the      *)
(* interpreter (interpretator.py), as <<name, code>> in the order written  *)
(***************************************************************************)
E4_OPCODES ==
    << <<"NEQ", 2>>, <<"ADD", 3>>, <<"SUB", 4>>, <<"JMP", 5>>, <<"JZ", 6>>,
       <<"STORE", 6>>, <<"LDI", 9>>, <<"LOAD", 12>> >>

E4_INTERP_OPCODES ==
    << <<"NEQ", 2>>, <<"ADD", 3>>, <<"SUB", 4>>, <<"JMP", 5>>, <<"JZ", 6>>,
       <<"LDI", 9>>, <<"LOAD", 12>> >>

\* every opcode table of the repository, as a set of <<name, code>>
OpcodeTables ==
    {{E3_OPCODES[k] : k \in DOMAIN E3_OPCODES}, {E4_OPCODES[k] : k \in DOMAIN E4_OPCODES},
     {E4_INTERP_OPCODES[k] : k \in DOMAIN E4_INTERP_OPCODES},
     {<<name, E5_OPCODES[name]>> : name \in DOMAIN E5_OPCODES},
     {<<E5_INTERP_OPCODES[code], code>> : code \in DOMAIN E5_INTERP_OPCODES}}

(***************************************************************************)
(* etap4/__main__.py: the assembler of the fourth stage                    *)
(***************************************************************************)
\* OPCODES[op]
E4_code(op) == E4_OPCODES[CHOOSE k \in DOMAIN E4_OPCODES : E4_OPCODES[k][1] = op][2]

E4_parse_register(reg) ==
    IF reg = <<>> \/ reg[1] # "R" \/ Tail(reg) = <<>>
            \/ \E k \in 2..Len(reg) : reg[k] \notin DOMAIN DigitOf
    THEN Raise("ValueError", "bad register")
    ELSE IF ~(0 <= Decimal(Tail(reg)) /\ Decimal(Tail(reg)) <= MAX_REG_ADDR)
         THEN Raise("ValueError", "register out of range")
    ELSE Return(I(Decimal(Tail(reg))))

E4_translate_instruction(instr) ==
    LET op == instr["op"]
        ir(fields) == Return([op |-> op, opcode |-> I(E4_code(op)), fields |-> fields])
        jump_ok(addr) == Le(I(0), addr) /\ Le(addr, I(MAX_ADDR_31))
        reg(key) == E4_parse_register(instr[key])
    IN  IF op \notin {E4_OPCODES[k][1] : k \in DOMAIN E4_OPCODES}
        THEN Raise("ValueError", "unknown operation")
        ELSE CASE op \in {"ADD", "SUB"} ->
                    IF reg("target_reg").exc # "none" THEN reg("target_reg")
                    ELSE IF reg("source_reg").exc # "none" THEN reg("source_reg")
                    ELSE ir("B_reg" :> reg("target_reg").value @@ "C_reg" :> reg("source_reg").value)
          [] op = "JMP" ->
                    IF ~jump_ok(instr["addr"]) THEN Raise("ValueError", "jump address out of range")
                    ELSE ir("B_addr" :> instr["addr"])
          [] op = "JZ" ->
                    IF reg("condition_reg").exc # "none" THEN reg("condition_reg")
                    ELSE IF ~jump_ok(instr["addr"])
                         THEN Raise("ValueError", "jump address out of range")
                    ELSE ir("B_reg" :> reg("condition_reg").value @@ "C_addr" :> instr["addr"])
          [] op = "LDI" ->
                    IF reg("target_reg").exc # "none" THEN reg("target_reg")
                    ELSE ir("B_const" :> instr["value"] @@ "C_reg" :> reg("target_reg").value)
          [] op \in {"LOAD", "NEQ"} ->
                    IF reg("target_reg").exc # "none" THEN reg("target_reg")
                    ELSE ir("B_reg" :> reg("target_reg").value @@ "C_addr" :> instr["addr"])
          [] op = "STORE" ->
                    IF reg("source_reg").exc # "none" THEN reg("source_reg")
                    ELSE ir("B_addr" :> instr["addr"] @@ "C_reg" :> reg("source_reg").value)

\* encode_instruction: the branches are tried in the order written, on the
\* opcode value; fields[key] of a missing key raises KeyError
E4_encode_instruction(ir_instr) ==
    LET opcode == ir_instr.opcode
        fields == ir_instr.fields
        code(op) == I(E4_code(op))
        word(b_key, c_key, c_shift) ==
            IF b_key \notin DOMAIN fields THEN Raise("KeyError", b_key)
            ELSE IF c_key \notin DOMAIN fields THEN Raise("KeyError", c_key)
            ELSE to_bytes(Or(Or(opcode, Shl(fields[b_key], 4)), Shl(fields[c_key], c_shift)),
                          INSTRUCTION_SIZE, "big")
    IN  CASE opcode \in {code("ADD"), code("SUB")} -> word("B_reg", "C_reg", 8)
          [] opcode = code("JMP") ->
                IF "B_addr" \notin DOMAIN fields THEN Raise("KeyError", "B_addr")
                ELSE to_bytes(Or(opcode, Shl(fields["B_addr"], 4)), INSTRUCTION_SIZE, "big")
          [] opcode # code("JMP") /\ opcode = code("JZ") -> word("B_reg", "C_addr", 8)
          [] opcode \notin {code("JMP"), code("JZ")} /\ opcode = code("LDI") ->
                word("B_const", "C_reg", 30)
          [] opcode \notin {code("JMP"), code("JZ"), code("LDI")}
                /\ opcode \in {code("LOAD"), code("NEQ")} -> word("B_reg", "C_addr", 8)
          [] opcode \notin {code("JMP"), code("JZ"), code("LDI"), code("LOAD"), code("NEQ")}
                /\ opcode = code("STORE") -> word("B_addr", "C_reg", 35)
          [] OTHER -> to_bytes(I(0), INSTRUCTION_SIZE, "big")

(***************************************************************************)
(* etap4/interpretator.py: the machine of the fourth stage                 *)
(***************************************************************************)
\* VirtualMachine() followed by load_program
E4_VirtualMachine(program) ==
    [data_memory |-> <<>>, registers |-> [r \in 0..15 |-> I(0)],
     instruction_memory |-> program, pc |-> I(0)]

\* the three assignments run_cycle makes before its loop
E4_presets(m) ==
    [m EXCEPT !.registers[1] = I(10), !.registers[2] = I(5),
              !.data_memory = MemSet(@, 50, I(0))]

\* one pass of the while loop of run_cycle on a fetched word: the machine
\* after it, or the exception that leaves the loop
E4_iteration(m) ==
    LET instruction == from_bytes(E5_instr_bytes(m), "big")
        opcode == Small(And(instruction, I(15)))
        names == {E4_INTERP_OPCODES[k][1] : k \in {j \in DOMAIN E4_INTERP_OPCODES :
                                                        E4_INTERP_OPCODES[j][2] = opcode}}
        op_name == CHOOSE name \in names : TRUE
        field(shift, mask) == And(Shr(instruction, shift), I(mask))
        reg(shift) == Small(field(shift, 15))
        next(after) == Return([after EXCEPT !.pc = Plus(m.pc, I(INSTRUCTION_SIZE))])
        alu(b, c) == IF op_name = "ADD" THEN Plus(m.registers[b], m.registers[c])
                     ELSE Minus(m.registers[b], m.registers[c])
    IN  IF names = {}
        THEN Raise("ValueError", [text |-> "unknown opcode", opcode |-> opcode, pc |-> m.pc])
        ELSE CASE op_name = "JMP" -> Return([m EXCEPT !.pc = Shr(instruction, 4)])
          [] op_name = "JZ" ->
                IF m.registers[reg(4)] = I(0)
                THEN Return([m EXCEPT !.pc = field(8, MAX_ADDR_31)])
                ELSE next(m)
          [] op_name \in {"ADD", "SUB"} ->
                next([m EXCEPT !.registers[reg(4)] = alu(reg(4), reg(8))])
          [] op_name = "LDI" -> next([m EXCEPT !.registers[reg(30)] = field(4, MAX_CONST_26)])
          [] op_name = "LOAD" ->
                IF ~InMemory(field(8, MAX_ADDR_31)) THEN Raise("IndexError", "list index out of range")
                ELSE next([m EXCEPT !.registers[reg(4)] =
                                MemGet(m.data_memory, Small(field(8, MAX_ADDR_31)))])
          [] op_name = "STORE" ->
                IF ~InMemory(field(4, MAX_ADDR_31))
                THEN Raise("IndexError", "list assignment index out of range")
                ELSE next([m EXCEPT !.data_memory =
                                MemSet(@, Small(field(4, MAX_ADDR_31)), m.registers[reg(35)])])
          [] op_name = "NEQ" ->
                IF ~InMemory(field(8, MAX_ADDR_31)) THEN Raise("IndexError", "list index out of range")
                ELSE next([m EXCEPT !.registers[reg(4)] =
                                IF m.registers[reg(4)] # MemGet(m.data_memory, Small(field(8, MAX_ADDR_31)))
                                THEN I(1) ELSE I(0)])

(***************************************************************************)
(* The etap4 toolchain: main_assembler on a source program, then           *)
(* main_interpreter on the binary file                                     *)
(***************************************************************************)
\* the source programs of at most MaxLen instructions over a small set of
\* records (an unknown operation, a register and an address out of range
\* among them), and two binary files that did not come from the etap4
\* assembler: a word in the STORE layout with nibble 6, and the same STORE as
\* etap5 writes it
T4_Init ==
    /\ LET SourceAlphabet ==
                {S_LDI(3, I(7)), S_LDI(16, I(1)), S_STORE(I(50), 1), S_STORE(I(51), 3),
                 S_LOAD(4, I(50)), S_LOAD(1, I(MEMORY_SIZE)), S_ADD(1, 2), S_SUB(3, 2),
                 S_JMP(I(0)), S_JMP(I(10)), S_JMP(Plus(I(MAX_ADDR_31), I(1))),
                 S_JZ(0, I(10)), S_JZ(1, I(0)), S_NEQ(1, I(50)), S_NOP}
           RawPrograms ==
                {to_bytes(Or(Or(I(6), Shl(I(50), 4)), Shl(I(1), 35)),
                          INSTRUCTION_SIZE, "big").value,
                 E5_assemble(S_STORE(I(50), 1)).value}
       IN  asm \in {[stage |-> "source", program |-> program, ir |-> <<>>, bytes |-> <<>>,
                     error |-> <<>>] :
                        program \in ProgramsOf({<<instr>> : instr \in SourceAlphabet}, MaxLen)}
                \cup {[stage |-> "bytes", program |-> <<>>, ir |-> <<>>, bytes |-> bytes,
                       error |-> <<>>] : bytes \in RawPrograms}
    /\ vm = Idle /\ run = Idle /\ state = Idle /\ sim = Idle

\* ir = [translate_instruction(instr) for instr in program]
T4_Translate ==
    /\ asm.stage = "source"
    /\ LET done == [k \in DOMAIN asm.program |-> E4_translate_instruction(asm.program[k])]
           bad == {k \in DOMAIN done : done[k].exc # "none"}
       IN  asm' = IF bad = {}
                  THEN [asm EXCEPT !.stage = "ir", !.ir = [k \in DOMAIN done |-> done[k].value]]
                  ELSE [asm EXCEPT !.stage = "error",
                                   !.error = done[CHOOSE k \in bad : \A j \in bad : k <= j]]
    /\ UNCHANGED <<vm, run, state, sim>>

\* for instr in ir: binary_data += encode_instruction(instr)
T4_Encode ==
    /\ asm.stage = "ir"
    /\ LET done == [k \in DOMAIN asm.ir |-> E4_encode_instruction(asm.ir[k])]
           bad == {k \in DOMAIN done : done[k].exc # "none"}
       IN  asm' = IF bad = {}
                  THEN [asm EXCEPT !.stage = "bytes",
                                   !.bytes = Concat([k \in DOMAIN done |-> done[k].value])]
                  ELSE [asm EXCEPT !.stage = "error",
                                   !.error = done[CHOOSE k \in bad : \A j \in bad : k <= j]]
    /\ UNCHANGED <<vm, run, state, sim>>

\* vm = VirtualMachine(); vm.load_program(binary); run_cycle up to its loop
T4_Start ==
    /\ asm.stage = "bytes"
    /\ vm = Idle
    /\ vm' = E4_presets(E4_VirtualMachine(asm.bytes))
    /\ run' = [status |-> "running", exc |-> "none", info |-> <<>>, steps |-> 0]
    /\ UNCHANGED <<asm, state, sim>>

\* one pass of the loop of run_cycle; the run is followed for MaxSteps passes
T4_Step ==
    /\ vm # Idle
    /\ run.status = "running"
    /\ E5_fetchable(vm)
    /\ run.steps < MaxSteps
    /\ \E r \in {E4_iteration(vm)} :
        IF r.exc = "none"
        THEN vm' = r.value /\ run' = [run EXCEPT !.steps = @ + 1]
        ELSE vm' = vm /\ run' = [run EXCEPT !.steps = @ + 1, !.status = "fault",
                                            !.exc = r.exc, !.info = r.value]
    /\ UNCHANGED <<asm, state, sim>>

\* the loop test fails, or the slice at pc is short
T4_Exit ==
    /\ vm # Idle
    /\ run.status = "running"
    /\ ~E5_fetchable(vm)
    /\ run' = [run EXCEPT !.status = "halted"]
    /\ UNCHANGED <<asm, vm, state, sim>>

T4_Next == T4_Translate \/ T4_Encode \/ T4_Start \/ T4_Step \/ T4_Exit

SpecTool4 == T4_Init /\ [][T4_Next]_vars

(***************************************************************************)
(* etap3/__main__.py: the assembler of the third stage (LDI, LOAD, STORE,  *)
(* NEQ), and etap3/interpretator.py's reading of the five bytes it wrote.  *)
(* parse_register has the text of etap4's, modelled by E4_parse_register.  *)
(***************************************************************************)
E3A_translate_instruction(instr) ==
    LET op == instr["op"]
        OPCODES == "NEQ" :> 2 @@ "STORE" :> 6 @@ "LDI" :> 9 @@ "LOAD" :> 12
        base(fields) == Return([op |-> op, opcode |-> I(OPCODES[op]), fields |-> fields])
        in_range(v, max) == Le(I(0), v) /\ Le(v, I(max))
    IN  IF op \notin DOMAIN OPCODES THEN Raise("ValueError", "unknown operation")
        ELSE CASE op = "LDI" ->
                LET target_reg == E4_parse_register(instr["target_reg"])
                IN  IF target_reg.exc # "none" THEN target_reg
                    ELSE IF ~in_range(instr["value"], MAX_CONST_26)
                         THEN Raise("ValueError", "constant out of range")
                    ELSE base("B_const" :> instr["value"] @@ "C_reg" :> target_reg.value)
          [] op \in {"LOAD", "NEQ"} ->
                LET target_reg == E4_parse_register(instr["target_reg"])
                IN  IF target_reg.exc # "none" THEN target_reg
                    ELSE IF ~in_range(instr["addr"], MAX_ADDR_31)
                         THEN Raise("ValueError", "address out of range")
                    ELSE base("B_reg" :> target_reg.value @@ "C_addr" :> instr["addr"])
          [] op = "STORE" ->
                LET source_reg == E4_parse_register(instr["source_reg"])
                IN  IF source_reg.exc # "none" THEN source_reg
                    ELSE IF ~in_range(instr["addr"], MAX_ADDR_31)
                         THEN Raise("ValueError", "address out of range")
                    ELSE base("B_addr" :> instr["addr"] @@ "C_reg" :> source_reg.value)

\* encode_instruction: the word is written most significant byte first
E3A_encode_instruction(ir_instr) ==
    LET opcode == ir_instr.opcode
        fields == ir_instr.fields
        word(B, C, c_shift) == Or(Or(opcode, Shl(B, 4)), Shl(C, c_shift))
        instruction ==
            CASE opcode = I(9) -> word(fields["B_const"], fields["C_reg"], 30)
              [] opcode = I(12) -> word(fields["B_reg"], fields["C_addr"], 8)
              [] opcode = I(6) -> word(fields["B_addr"], fields["C_reg"], 35)
              [] opcode = I(2) -> word(fields["B_reg"], fields["C_addr"], 8)
              [] OTHER -> I(0)
    IN  to_bytes(instruction, INSTRUCTION_SIZE, "big")

\* source records: the ends of each field's range, one past them, and a
\* record of an operation this assembler does not have
R3_Init ==
    /\ asm \in {[stage |-> "source", instr |-> instr, ir |-> <<>>, bytes |-> <<>>,
                 decoded |-> <<>>, error |-> <<>>] :
                    instr \in {S_NOP}
                        \cup {S_LDI(r, v) : r \in Regs5, v \in Consts5 \cup {I(66)}}
                        \cup {S_LOAD(r, a) : r \in Regs5, a \in Addrs5}
                        \cup {S_STORE(a, r) : r \in Regs5, a \in Addrs5}
                        \cup {S_NEQ(r, a) : r \in Regs5, a \in Addrs5}}
            \cup {[stage |-> "asm source", instr |-> instr, ir |-> <<>>, bytes |-> <<>>,
                   decoded |-> <<>>, error |-> <<>>] :
                    instr \in {[op |-> "HALT", args |-> <<>>], [op |-> "NOP", args |-> <<>>]}
                        \cup {[op |-> op, args |-> <<RegStr(b), RegStr(c)>>] :
                                op \in {"ADD", "SUB"}, b \in {0, 3, 4}, c \in {0, 3}}
                        \cup {[op |-> op, args |-> <<RegStr(r), a>>] :
                                op \in {"LOAD", "STORE", "JZ"}, r \in {0, 3, 4},
                                a \in {I(0), I(255), I(256), I(-1)}}
                        \cup {[op |-> "JMP", args |-> <<a>>] :
                                a \in {I(0), I(255), I(256), I(-1)}}}
    /\ vm = Idle /\ run = Idle /\ state = Idle /\ sim = Idle

\* ir_instr = translate_instruction(instr)
R3_Translate ==
    /\ asm.stage = "source"
    /\ \E r \in {E3A_translate_instruction(asm.instr)} :
        asm' = IF r.exc = "none" THEN [asm EXCEPT !.stage = "ir", !.ir = r.value]
               ELSE [asm EXCEPT !.stage = "error", !.error = r]
    /\ UNCHANGED <<vm, run, state, sim>>

\* binary_data = encode_instruction(ir_instr)
R3_Encode ==
    /\ asm.stage = "ir"
    /\ \E r \in {E3A_encode_instruction(asm.ir)} :
        asm' = IF r.exc = "none" THEN [asm EXCEPT !.stage = "bytes", !.bytes = r.value]
               ELSE [asm EXCEPT !.stage = "error", !.error = r]
    /\ UNCHANGED <<vm, run, state, sim>>

\* ir_instr = disassamble_instruction(instr_bytes) in run_simulator
R3_Disassemble ==
    /\ asm.stage = "bytes"
    /\ \E r \in {E3_disassamble_instruction(asm.bytes)} :
        asm' = IF r.exc = "none" THEN [asm EXCEPT !.stage = "decoded", !.decoded = r.value]
               ELSE [asm EXCEPT !.stage = "error", !.error = r]
    /\ UNCHANGED <<vm, run, state, sim>>

(***************************************************************************)
(* etap3/asm/__main__.py: the other assembler of the third stage, with     *)
(* registers R0..R3 and one-byte addresses                                 *)
(***************************************************************************)
E3S_translate_instruction(instr) ==
    LET op == instr["op"]
        args == instr["args"]
        OPCODES == "LOAD" :> 1 @@ "STORE" :> 2 @@ "ADD" :> 3 @@ "SUB" :> 4 @@ "JMP" :> 5
                    @@ "JZ" :> 6 @@ "HALT" :> 7
        \* parse_register of this file: R0..R3
        parse_register(reg) ==
            IF reg = <<>> \/ reg[1] # "R" \/ Tail(reg) = <<>>
                    \/ \E k \in 2..Len(reg) : reg[k] \notin DOMAIN DigitOf
            THEN Raise("ValueError", "bad register")
            ELSE IF ~(0 <= Decimal(Tail(reg)) /\ Decimal(Tail(reg)) <= 3)
                 THEN Raise("ValueError", "register out of range")
            ELSE Return(Decimal(Tail(reg)))
    IN  IF op \notin DOMAIN OPCODES THEN Raise("ValueError", "unknown operation")
        ELSE CASE op \in {"LOAD", "STORE", "JZ"} ->
                IF Len(args) # 2 THEN Raise("ValueError", "two arguments required")
                ELSE LET register == parse_register(args[1])
                     IN  IF register.exc # "none" THEN register
                         ELSE Return([opcode |-> OPCODES[op], register |-> register.value,
                                      address |-> args[2]])
          [] op \in {"ADD", "SUB"} ->
                IF Len(args) # 2 THEN Raise("ValueError", "two arguments required")
                ELSE LET reg1 == parse_register(args[1])
                         reg2 == parse_register(args[2])
                     IN  IF reg1.exc # "none" THEN reg1
                         ELSE IF reg2.exc # "none" THEN reg2
                         ELSE Return([opcode |-> OPCODES[op], reg1 |-> reg1.value,
                                      reg2 |-> reg2.value])
          [] op = "JMP" ->
                IF Len(args) # 1 THEN Raise("ValueError", "one argument required")
                ELSE Return([opcode |-> OPCODES[op], address |-> args[1]])
          [] op = "HALT" ->
                IF args # <<>> THEN Raise("ValueError", "no arguments accepted")
                ELSE Return([opcode |-> OPCODES[op]])

\* encode_instruction of etap3/asm: one byte, or one byte and the address
E3S_encode_instruction(instr) ==
    LET opcode == instr.opcode
        in_byte(address) == Le(I(0), address) /\ Le(address, I(255))
    IN  CASE opcode = 7 -> Return(<<opcode * 16>>)
          [] opcode \in {3, 4} -> Return(<<opcode * 16 + instr.reg1 * 4 + instr.reg2>>)
          [] opcode \in {1, 2, 6} ->
                IF ~in_byte(instr.address) THEN Raise("ValueError", "address out of range")
                ELSE Return(<<opcode * 16 + instr.register, Small(instr.address)>>)
          [] opcode = 5 ->
                IF ~in_byte(instr.address) THEN Raise("ValueError", "address out of range")
                ELSE Return(<<opcode * 16, Small(instr.address)>>)
          [] OTHER -> Raise("ValueError", "unknown opcode")

\* ir = [translate_instruction(instr) for instr in program]
R3S_Translate ==
    /\ asm.stage = "asm source"
    /\ \E r \in {E3S_translate_instruction(asm.instr)} :
        asm' = IF r.exc = "none" THEN [asm EXCEPT !.stage = "asm ir", !.ir = r.value]
               ELSE [asm EXCEPT !.stage = "error", !.error = r]
    /\ UNCHANGED <<vm, run, state, sim>>

\* binary_data += encode_instruction(instr)
R3S_Encode ==
    /\ asm.stage = "asm ir"
    /\ \E r \in {E3S_encode_instruction(asm.ir)} :
        asm' = IF r.exc = "none" THEN [asm EXCEPT !.stage = "asm bytes", !.bytes = r.value]
               ELSE [asm EXCEPT !.stage = "error", !.error = r]
    /\ UNCHANGED <<vm, run, state, sim>>

R3_Next == R3_Translate \/ R3_Encode \/ R3_Disassemble \/ R3S_Translate \/ R3S_Encode

SpecAsm3 == R3_Init /\ [][R3_Next]_vars

(***************************************************************************)
(* Properties of the etap5 assembler                                       *)
(***************************************************************************)
\* the register numbers, constants and addresses a source instruction names
A5_regs(instr) ==
    {instr[k] : k \in DOMAIN instr \cap {"target_reg", "source_reg", "condition_reg"}}

A5_consts(instr) == {instr[k] : k \in DOMAIN instr \cap {"value", "value_code"}}

A5_addrs(instr) == {instr[k] : k \in DOMAIN instr \cap {"addr"}}

\* every operand within its field: registers 0..15, constants 0..2^26-1,
\* addresses 0..2^31-1
A5_in_range(instr) ==
    /\ A5_regs(instr) \subseteq {RegStr(n) : n \in 0..15}
    /\ \A v \in A5_consts(instr) : Le(I(0), v) /\ Le(v, I(MAX_CONST_26))
    /\ \A a \in A5_addrs(instr) : Le(I(0), a) /\ Le(a, I(2147483647))

\* some operand exactly one past the largest value of its field
A5_one_past(instr) ==
    \/ RegStr(16) \in A5_regs(instr)
    \/ Plus(I(MAX_CONST_26), I(1)) \in A5_consts(instr)
    \/ instr["op"] # "JMP" /\ Plus(I(2147483647), I(1)) \in A5_addrs(instr)

\* C1: for every operation with in-range operands the assembler writes five
\* bytes, and the operation and the B and C fields run_cycle extracts from
\* them are those of the record that was encoded.
C1_RoundTrip ==
    A5_in_range(asm.instr) =>
        /\ asm.stage # "error"
        /\ asm.stage \in {"bytes", "decoded"} => Len(asm.bytes) = INSTRUCTION_SIZE
        /\ asm.stage = "decoded" =>
                asm.decoded = [op |-> asm.instr["op"], fields |-> asm.ir.fields]

C1_Witness ==
    /\ asm.stage = "decoded"
    /\ asm.instr = S_STORE(I(2147483647), 15)
    /\ asm.decoded.op = "STORE"
    /\ asm.decoded.fields["B_addr"] = I(2147483647)
    /\ asm.decoded.fields["C_reg"] = I(15)

\* C2: a source instruction with an operand one past the largest value of
\* its field (constant 2^26, address 2^31, register 16) is rejected: the
\* assembler writes no bytes for it.
C2_RangeRejected == A5_one_past(asm.instr) => asm.stage \notin {"bytes", "decoded"}

(***************************************************************************)
(* Properties of the etap5 machine                                         *)
(***************************************************************************)
\* the low nibble of the word at pc, read from its last byte
E5_nibble == E5_instr_bytes(vm)[INSTRUCTION_SIZE] % 16

E5_word == from_bytes(E5_instr_bytes(vm), "big")

E5_fetching == run.status = "running" /\ E5_fetchable(vm)

\* C4: every run of run_cycle terminates.  Whether the loop goes on depends on
\* the fields of the machine alone, so a run that terminates never makes a pass
\* after which the loop goes on with the machine exactly as it was.
C4_Terminates == [][E5_fetching /\ run'.status = "running" => vm' # vm]_vars

\* C6: a LOAD or STORE at address MEMORY_SIZE raises and stops run_cycle with
\* the machine as it was; at MEMORY_SIZE - 1 it succeeds (LOAD: reg[B] = mem[C],
\* STORE: mem[B] = reg[C]) and the run goes on with the next word.
C6_BoundsEnforcement ==
    [][(E5_fetching /\ E5_nibble \in {10, 12}) =>
        LET f == E5_decode(E5_word).fields
            load == E5_nibble = 12
            addr == IF load THEN f["C_addr"] ELSE f["B_addr"]
            reg == Small(IF load THEN f["B_reg"] ELSE f["C_reg"])
            last == I(MEMORY_SIZE - 1)
        IN  /\ addr = I(MEMORY_SIZE) =>
                  run'.status = "fault" /\ run'.exc = "IndexError" /\ vm' = vm
            /\ addr = last =>
                  /\ run'.status = "running"
                  /\ vm'.pc = Plus(vm.pc, I(INSTRUCTION_SIZE))
                  /\ load => /\ vm'.registers = [vm.registers EXCEPT ![reg] = MemGet(vm.data_memory, MEMORY_SIZE - 1)]
                             /\ vm'.data_memory = vm.data_memory
                  /\ ~load => /\ MemGet(vm'.data_memory, MEMORY_SIZE - 1) = vm.registers[reg]
                              /\ vm'.registers = vm.registers
                              /\ \A a \in (DOMAIN vm.data_memory \cup DOMAIN vm'.data_memory) \ {MEMORY_SIZE - 1} :
                                    MemGet(vm'.data_memory, a) = MemGet(vm.data_memory, a)
      ]_vars

\* both addresses were exercised in one run: the store and the load at
\* MEMORY_SIZE - 1 went through and the load at MEMORY_SIZE raised
C6_Witness ==
    /\ vm.instruction_memory = ScenarioBounds
    /\ run.status = "fault" /\ run.exc = "IndexError"
    /\ vm.pc = I(15)
    /\ MemGet(vm.data_memory, MEMORY_SIZE - 1) = I(7)
    /\ vm.registers[2] = I(7)

\* C8: a word whose low nibble is 0x1, 0xB, 0xD, 0xE or 0xF raises the
\* unknown-opcode error carrying that nibble and the pc of the word; a word
\* with any other low nibble never raises it.
C8_UnknownOpcode ==
    [][E5_fetching =>
        IF E5_nibble \in {1, 11, 13, 14, 15}
        THEN /\ run'.status = "fault" /\ run'.exc = "ValueError"
             /\ run'.info = [text |-> "unknown opcode", opcode |-> E5_nibble, pc |-> vm.pc]
        ELSE run'.exc # "ValueError"
      ]_vars

C8_Witness ==
    /\ run.status = "fault" /\ run.exc = "ValueError"
    /\ run.info.opcode = 11 /\ run.info.pc = I(5)

\* C9: scenario B with the JZ operand 2 as written never fetches the word
\* LDI R1,99 (at byte 10), R1 never holds 99, no exception is raised and the
\* run halts, after five passes, with R1 = 0.
C9_ScenarioB ==
    vm.instruction_memory = ScenarioB =>
        /\ vm.registers[1] # I(99)
        /\ vm.pc # I(10)
        /\ run.status # "fault"
        /\ run.steps <= 5
        /\ (run.status = "running" /\ run.steps = 5) => ~E5_fetchable(vm)
        /\ run.status = "halted" => vm.registers[1] = I(0)

C9_Witness ==
    vm.instruction_memory = ScenarioB /\ run.status = "halted" /\ run.steps = 5

\* C10: scenario A halts without an exception after exactly 3 passes with
\* R1 = 15, R2 = 5, every other register and every memory cell 0 and the pc at
\* the program length.
C10_ScenarioA ==
    vm.instruction_memory = ScenarioA =>
        /\ run.status # "fault"
        /\ run.steps <= 3
        /\ (run.status = "running" /\ run.steps = 3) => ~E5_fetchable(vm)
        /\ run.status = "halted" =>
              /\ run.steps = 3
              /\ vm.registers = [r \in 0..15 |-> IF r = 1 THEN I(15) ELSE IF r = 2 THEN I(5) ELSE I(0)]
              /\ vm.data_memory = <<>>
              /\ vm.pc = I(Len(vm.instruction_memory))
              /\ vm.pc = I(15)

C10_Witness ==
    vm.instruction_memory = ScenarioA /\ run.status = "halted" /\ vm.registers[1] = I(15)

(***************************************************************************)
(* Properties of the etap2 assembler                                       *)
(***************************************************************************)
\* the two fields of the record in asm, and whether their values are legal
A2_B == E2_layout(asm.ir.op).B

A2_C == E2_layout(asm.ir.op).C

A2_legal(f) == Le(I(0), asm.ir.fields[f.name]) /\ Le(asm.ir.fields[f.name], I(f.max))

\* the field as it stands in the little-endian word that was written
A2_stored(f) == And(Shr(from_bytes(asm.bytes, "little"), f.shift), I(f.max))

\* the error check_range raises for field f
A2_range_error(f) ==
    Raise("ValueError", [op_name |-> asm.ir.op, field_name |-> f.name,
                         value |-> asm.ir.fields[f.name], max_val |-> f.max])

\* C3: assemble_instruction accepts a record whose two fields are within 0..max
\* (the maximum included) and stores both values unmodified in the word; when a
\* field is above its maximum or negative, check_range raises the error naming
\* the operation, the first such field, its value and the maximum, and no bytes
\* are returned.
C3_CheckRange ==
    asm.stage # "ir" =>
        IF A2_legal(A2_B) /\ A2_legal(A2_C)
        THEN /\ asm.stage = "bytes"
             /\ Len(asm.bytes) = INSTRUCTION_SIZE
             /\ A2_stored(A2_B) = asm.ir.fields[A2_B.name]
             /\ A2_stored(A2_C) = asm.ir.fields[A2_C.name]
             /\ asm.bytes[1] % 16 = E2_OPCODES[asm.ir.op]
        ELSE /\ asm.stage = "error"
             /\ asm.bytes = <<>>
             /\ asm.error = A2_range_error(IF A2_legal(A2_B) THEN A2_C ELSE A2_B)

\* LOAD with the largest register and an address one past the maximum has been
\* refused with the error naming C_addr
C3_Witness ==
    /\ asm.stage = "error"
    /\ asm.ir = E2_ir("LOAD", "B_reg" :> I(MAX_REG_ADDR) @@ "C_addr" :> Plus(I(MAX_ADDR_31), I(1)))
    /\ asm.error = Raise("ValueError", [op_name |-> "LOAD", field_name |-> "C_addr",
                                        value |-> Plus(I(MAX_ADDR_31), I(1)),
                                        max_val |-> MAX_ADDR_31])

(***************************************************************************)
(* Properties of the etap3 simulator                                       *)
(***************************************************************************)
\* the program in sim starts with the word JMP 0
S3_self_loop ==
    /\ Len(sim.instr_memory) % INSTRUCTION_SIZE = 0
    /\ Len(sim.instr_memory) >= INSTRUCTION_SIZE
    /\ SubSeq(sim.instr_memory, 1, INSTRUCTION_SIZE) = W3_JMP(0)

\* C5: with step limit max_steps, a program whose word 0 is JMP 0 never has its
\* step counter above the limit, raises no exception, stays at pc 0, goes on
\* while the counter is below the limit, and ends with the counter equal to
\* the limit and the step-limit report.
C5_StepLimit ==
    S3_self_loop =>
        /\ sim.step <= sim.max_steps
        /\ sim.stage # "raised"
        /\ state.pc = I(0)
        /\ sim.stage = "loop" /\ sim.step < sim.max_steps => S3_looping
        /\ sim.stage = "done" => sim.step = sim.max_steps /\ sim.report = "step limit"

C5_Witness ==
    /\ S3_self_loop
    /\ sim.stage = "done"
    /\ sim.max_steps = MaxN
    /\ sim.step = MaxN
    /\ sim.report = "step limit"

(***************************************************************************)
(* The opcode tables                                                       *)
(***************************************************************************)
\* the low nibble of the word run_simulator is about to disassemble
S3_nibble == sim.instr_memory[Small(state.pc) * INSTRUCTION_SIZE + 1] % 16

\* C7: in every opcode table no two operation names have the same opcode
\* value, so the nibble of the word the simulator fetches belongs to at most
\* one operation name.
C7_OpcodesDistinct ==
    /\ \A table \in OpcodeTables : \A x \in table, y \in table : x[2] = y[2] => x[1] = y[1]
    /\ sim.stage = "loop" /\ S3_looping =>
            Cardinality({k \in DOMAIN E3_OPCODES : E3_OPCODES[k][2] = S3_nibble}) <= 1

(***************************************************************************)
(* Memory, input and output of the etap5 machine                           *)
(***************************************************************************)
\* the word at pc has a known opcode and run_cycle is about to execute it
E5_executing == E5_fetching /\ E5_nibble \in DOMAIN E5_INTERP_OPCODES

\* its operation name and fields
E5_current == E5_decode(E5_word)

\* C11: STORE a,Rs writes reg[s] to cell a and changes no other cell and no
\* register; no other operation changes memory; LOAD Rt,a copies cell a to
\* reg[t] and changes nothing else.  So a LOAD from a that follows a STORE to a
\* with no STORE to a in between reads the stored value; in the instance
\* (address 5, R3 = 42) R4 becomes 42 and cell 5 is the only cell changed.
C11_StoreThenLoad ==
    /\ [](vm.instruction_memory = ScenarioC /\ run.status = "halted" =>
            /\ vm.registers[4] = I(42)
            /\ vm.data_memory = (5 :> I(42)))
    /\ [][E5_executing =>
            LET f == E5_current.fields IN
            /\ E5_current.op = "STORE" /\ InMemory(f["B_addr"]) =>
                    /\ run'.status = "running"
                    /\ MemGet(vm'.data_memory, Small(f["B_addr"])) = vm.registers[Small(f["C_reg"])]
                    /\ \A a \in (DOMAIN vm.data_memory \cup DOMAIN vm'.data_memory)
                                    \ {Small(f["B_addr"])} :
                            MemGet(vm'.data_memory, a) = MemGet(vm.data_memory, a)
                    /\ vm'.registers = vm.registers
            /\ E5_current.op = "LOAD" /\ InMemory(f["C_addr"]) =>
                    /\ run'.status = "running"
                    /\ vm'.registers = [vm.registers EXCEPT ![Small(f["B_reg"])] =
                                            MemGet(vm.data_memory, Small(f["C_addr"]))]
            /\ E5_current.op # "STORE" => vm'.data_memory = vm.data_memory
       ]_vars

C11_Witness ==
    /\ vm.instruction_memory = ScenarioC
    /\ run.status = "halted"
    /\ vm.registers[3] = I(42) /\ vm.registers[4] = I(42)
    /\ MemGet(vm.data_memory, 5) = I(42)

\* C14: an IN executed when the input cursor equals the length of the input
\* list (an empty list included) sets reg[C] to 0 and changes no other
\* register, leaves the cursor where it is, raises nothing, and the run goes
\* on with the next word
C14_EofSentinel ==
    [][E5_executing /\ E5_current.op = "IN" /\ vm.input_ptr = Len(vm.input_data) =>
            /\ run'.status = "running"
            /\ vm'.registers = [vm.registers EXCEPT ![Small(E5_current.fields["C_reg"])] = I(0)]
            /\ vm'.input_ptr = vm.input_ptr
            /\ vm'.pc = Plus(vm.pc, I(INSTRUCTION_SIZE))
       ]_vars

\* the third IN of the loop IN R3 ; JMP 0 found the two values used up and
\* wrote 0 over the 3
C14_Witness ==
    /\ vm.instruction_memory = E5_binary_program(<<S_IN(3, I(1)), S_JMP(I(0))>>)
    /\ vm.input_data = <<I(70), I(3)>>
    /\ vm.input_ptr = 2
    /\ vm.registers[3] = I(0)
    /\ vm.pc = I(INSTRUCTION_SIZE)
    /\ run.status = "running"

\* C15: the input list is read front to back.  The cursor starts at 0 and
\* stays within 0..length; no step changes the list or moves the cursor back;
\* an IN with values left loads the value under the cursor (the k-th IN loads
\* the k-th value) and moves the cursor by one; no other operation moves it.
C15_FrontToBack ==
    /\ [](vm.input_ptr \in 0..Len(vm.input_data) /\ (run.steps = 0 => vm.input_ptr = 0))
    /\ [][/\ vm'.input_data = vm.input_data
          /\ vm.input_ptr <= vm'.input_ptr
          /\ E5_executing /\ E5_current.op = "IN" /\ vm.input_ptr < Len(vm.input_data) =>
                /\ vm'.registers[Small(E5_current.fields["C_reg"])]
                        = vm.input_data[vm.input_ptr + 1]
                /\ vm'.input_ptr = vm.input_ptr + 1
          /\ ~(E5_executing /\ E5_current.op = "IN") => vm'.input_ptr = vm.input_ptr
         ]_vars

\* the program IN R3 ; IN R3 has read both values: the second one is in R3
C15_Witness ==
    /\ vm.instruction_memory = E5_binary_program(<<S_IN(3, I(1)), S_IN(3, I(1))>>)
    /\ vm.input_data = <<I(70), I(3)>>
    /\ vm.input_ptr = 2
    /\ vm.registers[3] = I(3)
    /\ run.status = "halted"

\* C16: the output log only grows at its end.  It starts empty; an OUT appends
\* the one pair (reg[C], B field) and every other step leaves the log as it
\* is, so the old log is always a prefix of the new one and the log lists the
\* OUT executions in the order they happened.
C16_AppendOnly ==
    /\ [](run.steps = 0 => vm.output_log = <<>>)
    /\ [][/\ Len(vm.output_log) <= Len(vm'.output_log)
          /\ SubSeq(vm'.output_log, 1, Len(vm.output_log)) = vm.output_log
          /\ E5_executing /\ E5_current.op = "OUT" =>
                vm'.output_log = Append(vm.output_log,
                    <<vm.registers[Small(E5_current.fields["C_reg"])],
                      E5_current.fields["B_const"]>>)
          /\ ~(E5_executing /\ E5_current.op = "OUT") => vm'.output_log = vm.output_log
         ]_vars

\* LDI R1,7 ; OUT R1,2 ; IN R1,0 ; OUT R1,1 on the input 70, 3 has written
\* (7, 2) and then (70, 1)
C16_Witness ==
    /\ run.status = "halted"
    /\ vm.input_ptr = 1
    /\ vm.output_log = << <<I(7), I(2)>>, <<I(70), I(1)>> >>

\* C17: ADD and SUB wrap to 32 bits, so in a run of a program made of LDI,
\* ADD and SUB words every register always holds a value that fits 32 bits,
\* read as signed or as unsigned: at least -2^31 and below 2^32
C17_Wrap32 ==
    LET program == vm.instruction_memory
        alu_only == /\ Len(program) % INSTRUCTION_SIZE = 0
                    /\ \A k \in 1..(Len(program) \div INSTRUCTION_SIZE) :
                        LET code == program[k * INSTRUCTION_SIZE] % 16
                        IN  /\ code \in DOMAIN E5_INTERP_OPCODES
                            /\ E5_INTERP_OPCODES[code] \in {"LDI", "ADD", "SUB"}
    IN  alu_only =>
            \A r \in DOMAIN vm.registers :
                /\ Le(Minus(I(0), Shl(I(1), 31)), vm.registers[r])
                /\ Lt(vm.registers[r], Shl(I(1), 32))

C19_MalformedRejected ==
    /\ [](Len(sim.instr_memory) % INSTRUCTION_SIZE # 0 =>
            /\ sim.stage \in {"start", "raised"}
            /\ sim.step = 0
            /\ sim.stage = "raised" =>
                    sim.exc = "ValueError" /\ "text" \in DOMAIN sim.info)
    /\ [][Len(sim.instr_memory) % INSTRUCTION_SIZE # 0 =>
            sim'.stage = "raised" /\ state' = state]_vars

\* the eight bytes of JMP 0 and three more were rejected with the registers of
\* main_simulator's state as they were
C19_Witness ==
    /\ sim.instr_memory = W3_JMP(0) \o <<0, 0, 0>>
    /\ sim.stage = "raised"
    /\ sim.exc = "ValueError"
    /\ state = E3_main_state

\* C20: dump_memory(path, start, end) with 0 <= start <= end writes the pairs
\* (address, current value) of the addresses start..end-1 in ascending order,
\* and when the range goes past the memory size it writes the pairs of the
\* addresses up to MEMORY_SIZE-1 and does not fail
C20_DumpClipped ==
    run.status \in {"dumped", "dump failed"} /\ 0 <= run.info.start
            /\ run.info.start <= run.info.end =>
        LET last == IF run.info.end <= MEMORY_SIZE THEN run.info.end ELSE MEMORY_SIZE
        IN  /\ run.status = "dumped"
            /\ run.info.rows = [k \in 1..(last - run.info.start) |->
                    <<run.info.start + k - 1,
                      MemGet(vm.data_memory, run.info.start + k - 1)>>]

(***************************************************************************)
(* Properties of the etap4 toolchain                                       *)
(***************************************************************************)
\* the source program is one STORE with a register 0..15 and an address
\* inside the data memory
T4_one_store ==
    /\ asm.stage # "idle" /\ Len(asm.program) = 1
    /\ asm.program[1]["op"] = "STORE"
    /\ asm.program[1]["source_reg"] \in {RegStr(n) : n \in 0..15}
    /\ Le(I(0), asm.program[1]["addr"]) /\ InMemory(asm.program[1]["addr"])

\* C12: a STORE record goes through the etap4 assembler, the five bytes have
\* the address in bits 4..34 and the register in bits 35..38, and run_cycle
\* on them ends at the next word with mem[B] = reg[C].
C12_Store4 ==
    T4_one_store =>
        LET addr == asm.program[1]["addr"]
            reg == Decimal(Tail(asm.program[1]["source_reg"]))
            word == from_bytes(asm.bytes, "big")
        IN  /\ asm.stage # "error"
            /\ asm.stage = "bytes" =>
                    /\ Len(asm.bytes) = INSTRUCTION_SIZE
                    /\ And(Shr(word, 4), I(MAX_ADDR_31)) = addr
                    /\ And(Shr(word, 35), I(MAX_REG_ADDR)) = I(reg)
            /\ vm # Idle /\ run.status # "running" =>
                    /\ run.status = "halted"
                    /\ vm.pc = I(INSTRUCTION_SIZE)
                    /\ MemGet(vm.data_memory, Small(addr)) = vm.registers[reg]

\* C13: for every LDI, LOAD, STORE and NEQ record within its legal field
\* ranges, disassamble_instruction of the five bytes that the etap3
\* assembler's encode_instruction produced returns the operation name and the
\* B and C field values of the record
C13_RoundTrip3 ==
    asm.stage \in {"decoded", "error"} /\ asm.bytes # <<>>
    => /\ asm.stage = "decoded"
       /\ asm.decoded.op = asm.ir.op
       /\ asm.decoded.fields = asm.ir.fields

(***************************************************************************)
(* Faults, control flow and alignment of the etap5 machine                 *)
(***************************************************************************)
\* C21: a pass of run_cycle on a word with an unknown opcode, or on a LOAD,
\* STORE or NEQ whose address is outside the memory, raises and leaves
\* registers, memory, program counter, input cursor and output log as they
\* were when the word was fetched; after the exception no instruction is
\* executed and nothing changes any more
C21_FaultsFatal ==
    [][/\ E5_fetching /\ E5_InBounds(vm)
            /\ \/ E5_nibble \notin DOMAIN E5_INTERP_OPCODES
               \/ /\ E5_nibble \in DOMAIN E5_INTERP_OPCODES
                  /\ \/ E5_current.op \in {"LOAD", "NEQ"}
                            /\ ~InMemory(E5_current.fields["C_addr"])
                     \/ E5_current.op = "STORE" /\ ~InMemory(E5_current.fields["B_addr"])
          => run'.status = "fault" /\ run'.exc \in {"ValueError", "IndexError"} /\ vm' = vm
       /\ run'.status = "fault" => vm' = vm
       /\ run.status # "fault"
      ]_vars

\* LDI R2, 0x3FFFFFF ; STORE 2^20, R2 has raised on its second word: R2 holds
\* the constant, the program counter is still at the STORE, no cell is written
C21_Witness ==
    /\ vm.instruction_memory
            = E5_binary_program(<<S_LDI(2, I(MAX_CONST_26)), S_STORE(I(MEMORY_SIZE), 2)>>)
    /\ run.status = "fault" /\ run.exc = "IndexError"
    /\ vm.registers[2] = I(MAX_CONST_26)
    /\ vm.pc = I(INSTRUCTION_SIZE)
    /\ vm.data_memory = <<>>

\* C26: a pass on a JMP, JZ or NOP word changes the program counter and
\* nothing else and does not raise: JMP sets it to the B field (the word
\* above its low nibble), JZ to its C field when reg[B] is 0 and to the next
\* word otherwise, NOP to the next word
C26_ControlFlow ==
    [][E5_executing /\ E5_current.op \in {"JMP", "JZ", "NOP"} =>
            LET next_word == Plus(vm.pc, I(INSTRUCTION_SIZE))
                B_reg == Small(And(Shr(E5_word, 4), I(15)))
                target ==
                    CASE E5_current.op = "JMP" -> Shr(E5_word, 4)
                      [] E5_current.op = "JZ" ->
                            IF vm.registers[B_reg] = I(0)
                            THEN And(Shr(E5_word, 8), I(MAX_ADDR_31)) ELSE next_word
                      [] E5_current.op = "NOP" -> next_word
            IN  /\ run'.status = "running"
                /\ vm' = [vm EXCEPT !.pc = target]
       ]_vars

\* LDI R1, 7 ; JZ R1, 0 has ended: the JZ found R1 = 7 and went on to the end
\* of the program
C26_Witness ==
    /\ vm.instruction_memory = E5_binary_program(<<S_LDI(1, I(7)), S_JZ(1, I(0))>>)
    /\ run.status = "halted"
    /\ vm.registers[1] = I(7)
    /\ vm.pc = I(2 * INSTRUCTION_SIZE)

\* C27: in a program whose whole words are all known operations other than
\* JMP and JZ, with the addresses of LOAD, STORE and NEQ inside the memory,
\* every pass executes the word at the program counter and moves it on by one
\* word without raising, so the words at 0, 5, ... are executed once each in
\* that order; when no whole word is left at the program counter, after n
\* whole words, the run ends normally with the program counter at 5n and the
\* bytes of a part of a word change nothing
C27_StraightLine ==
    [][LET program == vm.instruction_memory
           n == Len(program) \div INSTRUCTION_SIZE
           word(k) == E5_decode(from_bytes(
                        SubSeq(program, (k - 1) * INSTRUCTION_SIZE + 1, k * INSTRUCTION_SIZE), "big"))
           straight ==
                \A k \in 1..n :
                    /\ program[k * INSTRUCTION_SIZE] % 16 \in DOMAIN E5_INTERP_OPCODES
                    /\ word(k).op \notin {"JMP", "JZ"}
                    /\ word(k).op \in {"LOAD", "NEQ"} => InMemory(word(k).fields["C_addr"])
                    /\ word(k).op = "STORE" => InMemory(word(k).fields["B_addr"])
       IN  straight /\ run.status = "running" =>
                IF E5_fetchable(vm)
                THEN /\ run'.status = "running"
                     /\ vm'.pc = Plus(vm.pc, I(INSTRUCTION_SIZE))
                ELSE /\ run'.status = "halted"
                     /\ vm' = vm
                     /\ vm.pc = I(n * INSTRUCTION_SIZE)
      ]_vars

\* LDI R1, 7 followed by three more bytes has ended after its one whole word
C27_Witness ==
    /\ vm.instruction_memory = E5_binary_program(<<S_LDI(1, I(7))>>) \o <<0, 0, 0>>
    /\ run.status = "halted"
    /\ run.steps = 1
    /\ vm.registers[1] = I(7)
    /\ vm.pc = I(INSTRUCTION_SIZE)

\* C28: when the length of the program is a multiple of 5 and the target of
\* every JMP and JZ word in it is a multiple of 5, the program counter is at
\* every moment a multiple of 5 and not negative, so the five bytes run_cycle
\* decodes are always one of the words of the program
C28_WordAligned ==
    LET program == vm.instruction_memory
        n == Len(program) \div INSTRUCTION_SIZE
        \* a mod 5 for a >= 0
        mod5(a) == ((a.hi % INSTRUCTION_SIZE) * (Pow2[20] % INSTRUCTION_SIZE) + a.lo)
                        % INSTRUCTION_SIZE
        instruction(k) ==
            from_bytes(SubSeq(program, (k - 1) * INSTRUCTION_SIZE + 1, k * INSTRUCTION_SIZE), "big")
        aligned ==
            /\ Len(program) % INSTRUCTION_SIZE = 0
            /\ \A k \in 1..n :
                    E5_opcode(instruction(k)) \in DOMAIN E5_INTERP_OPCODES =>
                        LET d == E5_decode(instruction(k))
                        IN  /\ d.op = "JMP" => mod5(d.fields["B_addr"]) = 0
                            /\ d.op = "JZ" => mod5(d.fields["C_addr"]) = 0
    IN  aligned => ~IsNeg(vm.pc) /\ mod5(vm.pc) = 0

\* JMP 5 ; LDI R1, 7 has ended: the jump went to the second word
C28_Witness ==
    /\ vm.instruction_memory = E5_binary_program(<<S_JMP(I(5)), S_LDI(1, I(7))>>)
    /\ run.status = "halted"
    /\ run.steps = 2
    /\ vm.registers[1] = I(7)
    /\ vm.pc = I(2 * INSTRUCTION_SIZE)

(***************************************************************************)
(* Registers, values and the report of the etap3 simulator                 *)
(***************************************************************************)
\* C22: in a run from a fresh state register 0 always reads 0, and a pass of
\* the loop on an LDI, LOAD, ADD or NEQ whose destination is register 0 that
\* does not raise changes the program counter to the next word and nothing
\* else
C22_RegisterZero ==
    /\ [](state.registers[0] = I(0))
    /\ [][sim.stage = "loop" /\ S3_looping /\ sim'.stage = "loop" =>
            LET start_byte == Small(state.pc) * INSTRUCTION_SIZE
                ir == E3_disassamble_instruction(
                        SubSeq(sim.instr_memory, start_byte + 1, start_byte + INSTRUCTION_SIZE))
            IN  /\ ir.exc = "none"
                /\ \/ ir.value.op = "LDI" /\ ir.value.fields["C_reg"] = I(0)
                   \/ ir.value.op \in {"LOAD", "ADD", "NEQ"} /\ ir.value.fields["B_reg"] = I(0)
                => state' = [state EXCEPT !.pc = Plus(state.pc, I(1))]
         ]_vars

\* LDI R1, 5 ; ADD R0, R1 has run: R1 holds 5 and register 0 is still 0
C22_Witness ==
    /\ sim.instr_memory = W3_LDI(1, 5) \o W3_ADD(0, 1)
    /\ sim.step = 2
    /\ state.pc = I(2)
    /\ state.registers[1] = I(5)
    /\ state.registers[0] = I(0)

(***************************************************************************)
(* The initial machine of etap4 and the word length of every encoder       *)
(***************************************************************************)
\* C23: run_cycle of a new etap4 VirtualMachine starts its first pass with
\* every register 0 and every memory cell 0, so the one-word program
\* ADD R1, R2 ends with R1 = 0
C23_NoPresets ==
    /\ vm # Idle /\ run.steps = 0 =>
            /\ \A r \in DOMAIN vm.registers : vm.registers[r] = I(0)
            /\ vm.data_memory = <<>>
    /\ vm # Idle /\ run.status = "halted" /\ asm.program = <<S_ADD(1, 2)>> =>
            vm.registers[1] = I(0)

\* C24: every encoder returns one 5-byte word for a record it encodes: the
\* bytes an assembler of the third stage has written for one record are five
C24_FiveBytes == asm.bytes # <<>> => Len(asm.bytes) = INSTRUCTION_SIZE

\* C25: the outcome run_simulator reports fits the state it stopped in: it
\* reports the step limit only with the program counter still inside the
\* program, and a run whose program counter has left the program at its end
\* is reported as finished, also when the steps made equal max_steps
C25_ReportMatches ==
    sim.stage = "done" /\ sim.step > 0 =>
        LET inside == Le(I(0), state.pc) /\ Lt(state.pc, I(S3_total_instr_count))
        IN  /\ sim.report = "step limit" => inside
            /\ ~Lt(state.pc, I(S3_total_instr_count)) => sim.report = "finished"

\* ---------------------------------------------------------------------------
\* execute_instruction of etap3 called on its own, one instruction after another
\* ---------------------------------------------------------------------------

\* a UVMState whose values lie in 0..2^32-1: the fresh one, the one of
\* main_simulator, and one with a register and a cell at 2^32-1
X3_Init ==
    /\ state \in {E3_UVMState, E3_main_state,
                  [E3_UVMState EXCEPT !.registers[2] = MASK32,
                                      !.data_memory = [a \in 7..7 |-> MASK32]]}
    /\ sim = [stage |-> "exec", step |-> 0, exc |-> "none", info |-> <<>>]
    /\ asm = Idle /\ vm = Idle /\ run = Idle

\* execute_instruction(ir_instr, state); an exception leaves the caller with the state
X3_Execute ==
    /\ sim.stage = "exec"
    /\ sim.step < MaxN
    /\ LET instructions ==
            {[op |-> "NOP", fields |-> <<>>],
             [op |-> "LDI", fields |-> [C_reg |-> I(1), B_const |-> I(MAX_CONST_26)]],
             [op |-> "LDI", fields |-> [C_reg |-> I(0), B_const |-> I(7)]],
             [op |-> "ADD", fields |-> [B_reg |-> I(2), C_reg |-> I(2)]],
             [op |-> "ADD", fields |-> [B_reg |-> I(1), C_reg |-> I(2)]],
             [op |-> "ADD", fields |-> [B_reg |-> I(0), C_reg |-> I(2)]],
             [op |-> "STORE", fields |-> [B_addr |-> I(9), C_reg |-> I(2)]],
             [op |-> "STORE", fields |-> [B_addr |-> I(DATA_MEMORY_SIZE - 1), C_reg |-> I(1)]],
             [op |-> "STORE", fields |-> [B_addr |-> I(DATA_MEMORY_SIZE), C_reg |-> I(1)]],
             [op |-> "STORE", fields |-> [B_addr |-> I(-1), C_reg |-> I(2)]],
             [op |-> "LOAD", fields |-> [B_reg |-> I(3), C_addr |-> I(7)]],
             [op |-> "LOAD", fields |-> [B_reg |-> I(MAX_REG_ADDR + 1), C_addr |-> I(7)]],
             [op |-> "NEQ", fields |-> [B_reg |-> I(2), C_addr |-> I(7)]],
             [op |-> "JZ", fields |-> [B_reg |-> I(1), C_addr |-> I(2)]],
             [op |-> "JMP", fields |-> [B_addr |-> I(0)]]}
       IN  \E ir_instr \in instructions :
            \E r \in {E3_execute_instruction(ir_instr, state)} :
                IF r.exc # "none"
                THEN /\ sim' = [sim EXCEPT !.step = @ + 1, !.exc = r.exc, !.info = r.value]
                     /\ state' = state
                ELSE /\ sim' = [sim EXCEPT !.step = @ + 1, !.exc = "none", !.info = <<>>]
                     /\ state' = r.value
    /\ UNCHANGED <<asm, vm, run>>

X3_Next == X3_Execute

SpecExec3 == X3_Init /\ [][X3_Next]_vars

\* C29: from a state whose registers and cells lie in 0..2^32-1, after any
\* sequence of execute_instruction calls every register and every cell still
\* lies in 0..2^32-1, there are sixteen registers, and no cell lies outside
\* the DATA_MEMORY_SIZE cells of the data memory.
C29_ValueRange ==
    sim.stage = "exec" =>
        /\ DOMAIN state.registers = 0..MAX_REG_ADDR
        /\ \A r \in DOMAIN state.registers :
                Le(I(0), state.registers[r]) /\ Le(state.registers[r], MASK32)
        /\ DOMAIN state.data_memory \subseteq 0..(DATA_MEMORY_SIZE - 1)
        /\ \A a \in DOMAIN state.data_memory :
                Le(I(0), state.data_memory[a]) /\ Le(state.data_memory[a], MASK32)

\* an ADD went over 2^32 - 1 and was reduced, and STORE wrote the result
C29_Witness ==
    /\ sim.stage = "exec" /\ sim.step >= 2
    /\ state.registers[2] = Minus(MASK32, I(1))
    /\ MemGet(state.data_memory, 9) = Minus(MASK32, I(1))

====
